---- MODULE Spec2Model ----
(***************************************************************************)
(* ItemRank-Bot: the in-memory DataStore (src/data_store.py) and the two   *)
(* conversation handler sets (src/bot_handlers_new.py and                  *)
(* src/bot_handlers_spanish.py) driven by python-telegram-bot's            *)
(* Dispatcher and ConversationHandler.                                     *)
(*                                                                         *)
(* Strings are sequences of chunks (a chunk is an indivisible piece of     *)
(* text), so << >> is the empty string, string concatenation is \o, and    *)
(* str.replace / re.match are computed on chunks.  A callback token is the *)
(* flow's prefix followed by the chunks of the name, as the f-strings of   *)
(* the handlers build it.                                                  *)
(***************************************************************************)
EXTENDS Integers, Sequences, FiniteSets, TLC

VARIABLES hs, data, conv, user_data, kb, last, starts, script, call, running

vars == <<hs, data, conv, user_data, kb, last, starts, script, call, running>>

(***************************************************************************)
(* Bounds of the model.                                                    *)
(***************************************************************************)
\* entry commands handled in one run
MaxStarts == 2
\* ratings kept on one item
MaxRatings == 2
\* largest numeral a callback token may carry
MaxNum == 11
\* DataStore methods called directly in one run
MaxCalls == 2
\* largest rating index passed to delete_rating
MaxIndex == 3

(***************************************************************************)
(* Strings.                                                                *)
(***************************************************************************)
\* s[i..] of a chunk sequence
Drop(s, n) == SubSeq(s, n + 1, Len(s))

\* str.startswith(p); re.match("^p", s)
StartsWith(s, p) == Len(s) >= Len(p) /\ SubSeq(s, 1, Len(p)) = p

RECURSIVE replace(_, _)
\* Python's s.replace(p, ""): every non-overlapping occurrence of p, scanning
\* from the left, is removed.
replace(s, p) ==
    IF s = << >> \/ p = << >> THEN s
    ELSE IF StartsWith(s, p) THEN replace(Drop(s, Len(p)), p)
    ELSE <<Head(s)>> \o replace(Tail(s), p)

\* the numerals a chunk can spell
Numerals == {ToString(k) : k \in 0..MaxNum}

\* int(s) succeeds exactly on a string that is one numeral
IsInt(s) == Len(s) = 1 /\ s[1] \in Numerals

\* int(s)
int(s) == CHOOSE k \in 0..MaxNum : ToString(k) = s[1]

\* str(i) inside an f-string
str(i) == <<ToString(i)>>

(***************************************************************************)
(* DataStore (src/data_store.py).  data[user] is the user's dict           *)
(* list name -> (item name -> sequence of <<rating, comment>>).  The       *)
(* user's own entry is a defaultdict that every accessor creates on first  *)
(* use and that no accessor can tell from an empty one, so data is total   *)
(* on users and starts empty.  Key order of the dicts is not modelled.     *)
(***************************************************************************)
EmptyDict == << >>

\* d with key k bound to v (d[k] = v)
Put(d, k, v) == (k :> v) @@ d

\* del d[k]
Del(d, k) == [x \in DOMAIN d \ {k} |-> d[x]]

\* DataStore.list_exists
list_exists(d, u, l) == l \in DOMAIN d[u]

\* create_list without the test for the name: the list is bound anew
data_store_create_list_overwrite(d, u, l) == [d EXCEPT ![u] = Put(d[u], l, EmptyDict)]

\* DataStore.create_list: the list is created only when absent
data_store_create_list(d, u, l) ==
    IF l \notin DOMAIN d[u] THEN [d EXCEPT ![u] = Put(d[u], l, EmptyDict)] ELSE d

\* DataStore.get_all_lists (as a set: order is not modelled)
get_all_lists(d, u) == DOMAIN d[u]

\* DataStore.item_exists
item_exists(d, u, l, i) == l \in DOMAIN d[u] /\ i \in DOMAIN d[u][l]

\* add_item binding the item to [] whether it is there or not
data_store_add_item_reset(d, u, l, i) ==
    LET d1 == IF ~list_exists(d, u, l) THEN data_store_create_list(d, u, l) ELSE d
    IN  [d1 EXCEPT ![u] = Put(d1[u], l, Put(d1[u][l], i, << >>))]

\* DataStore.add_item: creates the list when absent, then the item when absent
data_store_add_item(d, u, l, i) ==
    LET d1 == IF ~list_exists(d, u, l) THEN data_store_create_list(d, u, l) ELSE d
    IN  IF i \notin DOMAIN d1[u][l]
        THEN [d1 EXCEPT ![u] = Put(d1[u], l, Put(d1[u][l], i, << >>))]
        ELSE d1

\* DataStore.get_list_items
get_list_items(d, u, l) == IF ~list_exists(d, u, l) THEN EmptyDict ELSE d[u][l]

\* add_rating subscripting the defaultdicts without item_exists first
add_rating_unguarded(d, u, l, i, rating, comment) ==
    IF ~(0 <= rating /\ rating <= 10) THEN d
    ELSE LET d1 == data_store_add_item(d, u, l, i)
         IN  [d1 EXCEPT ![u] = Put(d1[u], l, Put(d1[u][l], i,
                                   Append(d1[u][l][i], <<rating, comment>>)))]

\* add_rating with insert(0, ...) for append
add_rating_prepend(d, u, l, i, rating, comment) ==
    IF ~item_exists(d, u, l, i) THEN d
    ELSE IF ~(0 <= rating /\ rating <= 10) THEN d
    ELSE [d EXCEPT ![u] = Put(d[u], l, Put(d[u][l], i, <<<<rating, comment>>>> \o d[u][l][i]))]

\* add_rating without the test of the range of the score
add_rating_nocheck(d, u, l, i, rating, comment) ==
    IF ~item_exists(d, u, l, i) THEN d
    ELSE [d EXCEPT ![u] = Put(d[u], l, Put(d[u][l], i, Append(d[u][l][i], <<rating, comment>>)))]

\* add_rating writing over the item's latest rating instead of appending
add_rating_edit(d, u, l, i, rating, comment) ==
    IF ~item_exists(d, u, l, i) THEN d
    ELSE IF ~(0 <= rating /\ rating <= 10) THEN d
    ELSE IF d[u][l][i] = << >>
    THEN [d EXCEPT ![u] = Put(d[u], l, Put(d[u][l], i, <<<<rating, comment>>>>))]
    ELSE [d EXCEPT ![u] = Put(d[u], l, Put(d[u][l], i,
                              [d[u][l][i] EXCEPT ![Len(d[u][l][i])] = <<rating, comment>>]))]

\* DataStore.add_rating
add_rating(d, u, l, i, rating, comment) ==
    IF ~item_exists(d, u, l, i) THEN d
    ELSE IF ~(0 <= rating /\ rating <= 10) THEN d
    ELSE [d EXCEPT ![u] = Put(d[u], l, Put(d[u][l], i, Append(d[u][l][i], <<rating, comment>>)))]

\* DataStore.get_item_ratings
get_item_ratings(d, u, l, i) == IF ~item_exists(d, u, l, i) THEN << >> ELSE d[u][l][i]

RECURSIVE SumRatings(_)
\* sum(rating_values)
SumRatings(rs) == IF rs = << >> THEN 0 ELSE Head(rs)[1] + SumRatings(Tail(rs))

\* get_average_rating with // for /
get_average_rating_floor(d, u, l, i) ==
    LET ratings == get_item_ratings(d, u, l, i)
    IN  IF ratings = << >> THEN <<0, 1>> ELSE <<SumRatings(ratings) \div Len(ratings), 1>>

\* DataStore.get_average_rating, as the fraction <<numerator, denominator>>
get_average_rating(d, u, l, i) ==
    LET ratings == get_item_ratings(d, u, l, i)
    IN  IF ratings = << >> THEN <<0, 1>> ELSE <<SumRatings(ratings), Len(ratings)>>

\* delete_list that empties the list and keeps its name
delete_list_emptied(d, u, l) ==
    IF ~list_exists(d, u, l) THEN <<d, FALSE>>
    ELSE <<[d EXCEPT ![u] = Put(d[u], l, EmptyDict)], TRUE>>

\* DataStore.delete_list: <<new data, returned bool>>
delete_list(d, u, l) ==
    IF ~list_exists(d, u, l) THEN <<d, FALSE>>
    ELSE <<[d EXCEPT ![u] = Del(d[u], l)], TRUE>>

\* delete_item that drops the list with its last item
delete_item_prune(d, u, l, i) ==
    IF ~item_exists(d, u, l, i) THEN <<d, FALSE>>
    ELSE IF DOMAIN d[u][l] = {i} THEN <<[d EXCEPT ![u] = Del(d[u], l)], TRUE>>
    ELSE <<[d EXCEPT ![u] = Put(d[u], l, Del(d[u][l], i))], TRUE>>

\* DataStore.delete_item: <<new data, returned bool>>
delete_item(d, u, l, i) ==
    IF ~item_exists(d, u, l, i) THEN <<d, FALSE>>
    ELSE <<[d EXCEPT ![u] = Put(d[u], l, Del(d[u][l], i))], TRUE>>

\* del ratings[k]
RemoveAt(rs, k) == SubSeq(rs, 1, k) \o SubSeq(rs, k + 2, Len(rs))

\* delete_rating without the test rating_index < 0: del counts a negative
\* index from the end
delete_rating_nolower(d, u, l, i, rating_index) ==
    IF ~item_exists(d, u, l, i) THEN <<d, FALSE>>
    ELSE IF rating_index >= Len(d[u][l][i]) \/ rating_index < 0 - Len(d[u][l][i])
    THEN <<d, FALSE>>
    ELSE LET k == IF rating_index < 0 THEN Len(d[u][l][i]) + rating_index ELSE rating_index
         IN  <<[d EXCEPT ![u] = Put(d[u], l, Put(d[u][l], i, RemoveAt(d[u][l][i], k)))], TRUE>>

\* DataStore.delete_rating (rating_index is 0-based): <<new data, returned bool>>
delete_rating(d, u, l, i, rating_index) ==
    IF ~item_exists(d, u, l, i) THEN <<d, FALSE>>
    ELSE IF rating_index < 0 \/ rating_index >= Len(d[u][l][i]) THEN <<d, FALSE>>
    ELSE <<[d EXCEPT ![u] = Put(d[u], l, Put(d[u][l], i, RemoveAt(d[u][l][i], rating_index)))], TRUE>>

\* clear_ratings assigning [] without item_exists first
clear_ratings_unguarded(d, u, l, i) ==
    LET d1 == data_store_add_item(d, u, l, i)
    IN  <<[d1 EXCEPT ![u] = Put(d1[u], l, Put(d1[u][l], i, << >>))], item_exists(d, u, l, i)>>

\* clear_ratings deleting the item with its ratings
clear_ratings_drop(d, u, l, i) ==
    IF ~item_exists(d, u, l, i) THEN <<d, FALSE>>
    ELSE <<[d EXCEPT ![u] = Put(d[u], l, Del(d[u][l], i))], TRUE>>

\* DataStore.clear_ratings: <<new data, returned bool>>
clear_ratings(d, u, l, i) ==
    IF ~item_exists(d, u, l, i) THEN <<d, FALSE>>
    ELSE <<[d EXCEPT ![u] = Put(d[u], l, Put(d[u][l], i, << >>))], TRUE>>

(***************************************************************************)
(* The nested defaultdicts under the methods.  Subscripting a defaultdict  *)
(* with a missing key stores the default under that key; a membership test *)
(* (in) does not.  The after_ operators give the store a reading method    *)
(* leaves behind, subscript by subscript as its code evaluates them.       *)
(***************************************************************************)
\* self.data[user_id][list_name]: a missing list comes to exist, empty
dd_list(d, u, l) ==
    IF l \in DOMAIN d[u] THEN d ELSE [d EXCEPT ![u] = Put(d[u], l, EmptyDict)]

\* self.data[user_id][list_name][item_name]: a missing item comes to exist, unrated
dd_item(d, u, l, i) ==
    LET d1 == dd_list(d, u, l)
    IN  IF i \in DOMAIN d1[u][l] THEN d1
        ELSE [d1 EXCEPT ![u] = Put(d1[u], l, Put(d1[u][l], i, << >>))]

\* item_exists subscripting the list without testing for it first
after_item_exists_unguarded(d, u, l, i) == dd_list(d, u, l)

\* the store after item_exists: "and" evaluates its right side, which
\* subscripts the list, only when the list is there
after_item_exists(d, u, l, i) == IF l \in DOMAIN d[u] THEN dd_list(d, u, l) ELSE d

\* the store after get_list_items
after_get_list_items(d, u, l) == IF ~list_exists(d, u, l) THEN d ELSE dd_list(d, u, l)

\* the store after get_item_ratings, and after get_average_rating, which calls it
after_get_item_ratings(d, u, l, i) ==
    LET d1 == after_item_exists(d, u, l, i)
    IN  IF ~item_exists(d1, u, l, i) THEN d1 ELSE dd_item(d1, u, l, i)

(***************************************************************************)
(* The transport's side of an update.                                      *)
(***************************************************************************)
Users == {"u1"}

\* a one-to-one chat and a group chat
Chats == {"priv", "grp"}

\* update.effective_chat.type
ChatType(c) == IF c = "priv" THEN "private" ELSE "group"

\* what context.bot.get_chat_member yields: a member status, or an exception
Members == {"creator", "administrator", "member", "error"}

\* the ConversationHandlers of setup_handlers
Flows == {"create_list", "add_item", "view_list", "rate_item", "view_ratings",
          "delete_list", "delete_item", "delete_rating", "clear_ratings"}

\* ConversationHandler.END and the states of lines 16-17
END == "END"
CREATE_LIST == "CREATE_LIST"
ADD_ITEM == "ADD_ITEM"
SELECT_LIST == "SELECT_LIST"
RATE_ITEM == "RATE_ITEM"
SELECTING_ITEM_TO_RATE == "SELECTING_ITEM_TO_RATE"
ADD_COMMENT == "ADD_COMMENT"
DELETE_LIST == "DELETE_LIST"
DELETE_ITEM == "DELETE_ITEM"
DELETE_RATING == "DELETE_RATING"
CONFIRM_DELETE == "CONFIRM_DELETE"

\* the outcome of a handler that raised: the conversation keeps its state
RAISE == "RAISE"

\* ADMIN_COMMANDS, each as the command name after the slash
ADMIN_COMMANDS == {"newlist", "deletelist", "deleteitem", "deleterating", "clearratings"}

\* The text forms of a command that CommandHandler routes to the same callback:
\* "/cmd", "/cmd args", "/cmd@botname", and "/CMD" (it lower-cases the command).
Forms == {"bare", "args", "atbot", "upper"}

CmdUpdate(cmd, form) == [data |-> << >>, cmd |-> cmd, form |-> form, kind |-> "command"]
TextUpdate(t) == [data |-> t, cmd |-> "", form |-> "", kind |-> "text"]
CallbackUpdate(t) == [data |-> t, cmd |-> "", form |-> "", kind |-> "callback"]

\* update.message.text.split()[0] of a command message, as <<spelling, command>>:
\* the first word keeps "@botname" and the upper case that CommandHandler ignores
FirstWord(upd) ==
    IF upd.kind # "command" THEN <<"", "">>
    ELSE IF upd.form \in {"bare", "args"} THEN <<"exact", upd.cmd>>
    ELSE <<upd.form, upd.cmd>>

\* is_admin with the except branch returning True: fail-open
is_admin_failopen(c, member) ==
    IF ChatType(c) = "private" THEN TRUE
    ELSE IF member = "error" THEN TRUE
    ELSE member \in {"creator", "administrator"}

\* is_admin
is_admin(c, member) ==
    IF ChatType(c) = "private" THEN TRUE
    ELSE IF member = "error" THEN FALSE
    ELSE member \in {"creator", "administrator"}

(***************************************************************************)
(* context.user_data of one user: a dict, here a function on the keys set  *)
(* so far.  None stands for Python's None where a name is read.            *)
(***************************************************************************)
None == <<"None (no str)">>

\* user_data.get(k)
Get(ud, k) == IF k \in DOMAIN ud THEN ud[k] ELSE None

\* truth value of user_data.get(k) for a str value: neither None nor ""
Truthy(ud, k) == k \in DOMAIN ud /\ ud[k] # << >>

(***************************************************************************)
(* Callback tokens.                                                        *)
(***************************************************************************)
P_add_to == <<"add_to_">>
P_view == <<"view_">>
P_rate_list == <<"rate_list_">>
P_rate_item == <<"rate_item_">>
P_give_rating == <<"give_rating_">>
P_ratings == <<"ratings_">>
P_delete_list == <<"delete_list_">>
P_delete_item == <<"delete_item_">>
P_delete_item_list == <<"delete_item_", "list_">>
P_delete_rating == <<"delete_rating_">>
P_delete_rating_list == <<"delete_rating_", "list_">>
P_delete_rating_item == <<"delete_rating_", "item_">>
P_clear_ratings_list == <<"clear_ratings_list_">>
P_clear_ratings_item == <<"clear_ratings_item_">>
T_delete_all_ratings == <<"delete_all_ratings">>
T_confirm_delete_list == <<"confirm_delete_list">>
T_confirm_delete_item == <<"confirm_delete_item">>
T_confirm_delete_rating == <<"confirm_delete_rating">>
T_confirm_clear_ratings == <<"confirm_clear_ratings">>
T_cancel_delete == <<"cancel_delete">>
T_cancel_clear == <<"cancel_clear">>

\* the reply's inline keyboard: the candidate buttons and the fixed ones
NoKb == [kind |-> "none", cands |-> {}, extra |-> {}]
Kb(kind, cands, extra) == [kind |-> kind, cands |-> cands, extra |-> extra]

\* what a handler did: the state it returned (or RAISE), the user's user_data,
\* the store, the keyboard it sent and the reply it gave
R(st, ud, d, k, msg) == [st |-> st, ud |-> ud, d |-> d, k |-> k, msg |-> msg]

\* keyboard of one button per key of a dict
Buttons(prefix, names) == {prefix \o n : n \in names}

(***************************************************************************)
(* Handlers that the two sets share (bot_handlers_new.py line numbers; the *)
(* Spanish set differs in the reply texts only).                           *)
(***************************************************************************)
\* admin_required: the wrapper around an entry handler
\* (func is what the wrapped handler does when it is called)
admin_required(func, d, ud, c, member, upd) ==
    IF ~is_admin(c, member) /\ FirstWord(upd)[1] = "exact" /\ FirstWord(upd)[2] \in ADMIN_COMMANDS
    THEN R(END, ud, d, NoKb, "denied")
    ELSE func

\* new_list of bot_handlers_new.py (not decorated)
new_list(d, ud, u, upd) == R(CREATE_LIST, ud, d, NoKb, "ask_list_name")

\* create_list without the list_exists test
create_list_notest(d, ud, u, upd) ==
    R(END, ud, data_store_create_list(d, u, upd.data), NoKb, "created")

\* create_list
create_list(d, ud, u, upd) ==
    LET list_name == upd.data
    IN  IF list_exists(d, u, list_name) THEN R(CREATE_LIST, ud, d, NoKb, "duplicate")
        ELSE R(END, ud, data_store_create_list(d, u, list_name), NoKb, "created")

\* add_item_start
add_item_start(d, ud, u, upd) ==
    LET lists == get_all_lists(d, u)
    IN  IF lists = {} THEN R(END, ud, d, NoKb, "no_lists")
        ELSE R(SELECT_LIST, ud, d, Kb("lists", Buttons(P_add_to, lists), {}), "choose_list")

\* select_list_for_item
select_list_for_item(d, ud, u, upd) ==
    LET list_name == replace(upd.data, P_add_to)
    IN  R(ADD_ITEM, Put(ud, "selected_list", list_name), d, NoKb, "ask_item_name")

\* add_item_to_list without the test of user_data's selected_list
add_item_to_list_nolist(d, ud, u, upd) ==
    LET list_name == Get(ud, "selected_list")
        item_name == upd.data
    IN  IF item_exists(d, u, list_name, item_name) THEN R(ADD_ITEM, ud, d, NoKb, "duplicate")
        ELSE R(END, ud, data_store_add_item(d, u, list_name, item_name), NoKb, "added")

\* add_item_to_list
add_item_to_list(d, ud, u, upd) ==
    LET list_name == Get(ud, "selected_list")
        item_name == upd.data
    IN  IF ~Truthy(ud, "selected_list") THEN R(END, ud, d, NoKb, "error")
        ELSE IF item_exists(d, u, list_name, item_name) THEN R(ADD_ITEM, ud, d, NoKb, "duplicate")
        ELSE R(END, ud, data_store_add_item(d, u, list_name, item_name), NoKb, "added")

\* view_list_start
view_list_start(d, ud, u, upd) ==
    LET lists == get_all_lists(d, u)
    IN  IF lists = {} THEN R(END, ud, d, NoKb, "no_lists")
        ELSE R(SELECT_LIST, ud, d, Kb("lists", Buttons(P_view, lists), {}), "choose_list")

\* view_list_items
view_list_items(d, ud, u, upd) ==
    LET list_name == replace(upd.data, P_view)
        items == get_list_items(d, u, list_name)
    IN  IF DOMAIN items = {} THEN R(END, ud, d, NoKb, "empty_list")
        ELSE R(END, ud, d, NoKb, "listing")

\* rate_item_start without the "if not lists" branch
rate_item_start_nocheck(d, ud, u, upd) ==
    LET lists == get_all_lists(d, u)
    IN  R(SELECT_LIST, ud, d, Kb("lists", Buttons(P_rate_list, lists), {}), "choose_list")

\* rate_item_start
rate_item_start(d, ud, u, upd) ==
    LET lists == get_all_lists(d, u)
    IN  IF lists = {} THEN R(END, ud, d, NoKb, "no_lists")
        ELSE R(SELECT_LIST, ud, d, Kb("lists", Buttons(P_rate_list, lists), {}), "choose_list")

\* select_list_for_rating
select_list_for_rating(d, ud, u, upd) ==
    LET list_name == replace(upd.data, P_rate_list)
        ud1 == Put(ud, "rating_list", list_name)
        items == get_list_items(d, u, list_name)
    IN  IF DOMAIN items = {} THEN R(END, ud1, d, NoKb, "empty_list")
        ELSE R(SELECTING_ITEM_TO_RATE, ud1, d,
               Kb("items", Buttons(P_rate_item, DOMAIN items), {}), "choose_item")

\* select_item_for_rating: the keyboard holds the buttons 0..10
select_item_for_rating(d, ud, u, upd) ==
    LET item_name == replace(upd.data, P_rate_item)
    IN  R(RATE_ITEM, Put(ud, "rating_item", item_name), d,
          Kb("scores", {P_give_rating \o str(i) : i \in 0..10}, {}), "choose_score")

\* apply_rating storing the score at once, before the comment step
apply_rating_eager(d, ud, u, upd) ==
    LET suffix == replace(upd.data, P_give_rating)
    IN  IF ~IsInt(suffix) THEN R(RAISE, ud, d, NoKb, "raised")
        ELSE IF ~(Truthy(ud, "rating_list") /\ Truthy(ud, "rating_item"))
        THEN R(END, ud, d, NoKb, "error")
        ELSE R(ADD_COMMENT, Put(ud, "temp_rating", int(suffix)),
               add_rating(d, u, ud["rating_list"], ud["rating_item"], int(suffix), << >>),
               NoKb, "ask_comment")

\* apply_rating: int() raises ValueError on a suffix that is no numeral
apply_rating(d, ud, u, upd) ==
    LET suffix == replace(upd.data, P_give_rating)
    IN  IF ~IsInt(suffix) THEN R(RAISE, ud, d, NoKb, "raised")
        ELSE IF ~(Truthy(ud, "rating_list") /\ Truthy(ud, "rating_item"))
        THEN R(END, ud, d, NoKb, "error")
        ELSE R(ADD_COMMENT, Put(ud, "temp_rating", int(suffix)), d, NoKb, "ask_comment")

\* add_rating_comment
add_rating_comment(d, ud, u, upd) ==
    LET comment == upd.data
    IN  IF ~(Truthy(ud, "rating_list") /\ Truthy(ud, "rating_item") /\ "temp_rating" \in DOMAIN ud)
        THEN R(END, ud, d, NoKb, "error")
        ELSE R(END, ud,
               add_rating(d, u, ud["rating_list"], ud["rating_item"], ud["temp_rating"], comment),
               NoKb, "rated")

\* skip_comment testing all([list_name, item_name, rating]): a score 0 is falsy
skip_comment_truthy(d, ud, u, upd) ==
    IF ~(Truthy(ud, "rating_list") /\ Truthy(ud, "rating_item")
         /\ "temp_rating" \in DOMAIN ud /\ ud["temp_rating"] # 0)
    THEN R(END, ud, d, NoKb, "error")
    ELSE R(END, ud,
           add_rating(d, u, ud["rating_list"], ud["rating_item"], ud["temp_rating"], << >>),
           NoKb, "rated")

\* skip_comment: add_rating with the default comment ""
skip_comment(d, ud, u, upd) ==
    IF ~(Truthy(ud, "rating_list") /\ Truthy(ud, "rating_item") /\ "temp_rating" \in DOMAIN ud)
    THEN R(END, ud, d, NoKb, "error")
    ELSE R(END, ud,
           add_rating(d, u, ud["rating_list"], ud["rating_item"], ud["temp_rating"], << >>),
           NoKb, "rated")

\* view_ratings_start
view_ratings_start(d, ud, u, upd) ==
    LET lists == get_all_lists(d, u)
    IN  IF lists = {} THEN R(END, ud, d, NoKb, "no_lists")
        ELSE R(SELECT_LIST, ud, d, Kb("lists", Buttons(P_ratings, lists), {}), "choose_list")

\* view_list_ratings
view_list_ratings(d, ud, u, upd) ==
    LET list_name == replace(upd.data, P_ratings)
        items == get_list_items(d, u, list_name)
    IN  IF DOMAIN items = {} THEN R(END, ud, d, NoKb, "empty_list")
        ELSE R(END, ud, d, NoKb, "listing")

\* cancel: update.message is None for a callback query, so reply_text raises
cancel(d, ud, u, upd) ==
    IF upd.kind = "callback" THEN R(RAISE, ud, d, NoKb, "raised")
    ELSE R(END, ud, d, NoKb, "cancelled")

\* delete_list_start (before admin_required wraps it)
delete_list_start(d, ud, u, upd) ==
    LET lists == get_all_lists(d, u)
    IN  IF lists = {} THEN R(END, ud, d, NoKb, "no_lists")
        ELSE R(DELETE_LIST, ud, d, Kb("lists", Buttons(P_delete_list, lists), {}), "choose_list")

\* confirm_delete_list
confirm_delete_list(d, ud, u, upd) ==
    LET list_name == replace(upd.data, P_delete_list)
    IN  R(CONFIRM_DELETE, Put(ud, "delete_list_name", list_name), d,
          Kb("gate", {}, {T_confirm_delete_list, T_cancel_delete}), "confirm")

(***************************************************************************)
(* The delete and clear handlers of bot_handlers_new.py.                   *)
(***************************************************************************)
\* execute_delete_list
execute_delete_list_new(d, ud, u, upd) ==
    IF upd.data = T_cancel_delete THEN R(END, ud, d, NoKb, "kept")
    ELSE IF ~Truthy(ud, "delete_list_name") THEN R(END, ud, d, NoKb, "error")
    ELSE LET res == delete_list(d, u, ud["delete_list_name"])
         IN  R(END, ud, res[1], NoKb, IF res[2] THEN "deleted" ELSE "failed")

\* delete_item_start
delete_item_start_new(d, ud, u, upd) ==
    LET lists == get_all_lists(d, u)
    IN  IF lists = {} THEN R(END, ud, d, NoKb, "no_lists")
        ELSE R(DELETE_LIST, ud, d, Kb("lists", Buttons(P_delete_item_list, lists), {}), "choose_list")

\* select_list_for_delete_item keeping the list under the add-item flow's key
select_list_for_delete_item_new_samekey(d, ud, u, upd) ==
    LET list_name == replace(upd.data, P_delete_item_list)
        ud1 == Put(ud, "selected_list", list_name)
        items == get_list_items(d, u, list_name)
    IN  IF DOMAIN items = {} THEN R(END, ud1, d, NoKb, "empty_list")
        ELSE R(DELETE_ITEM, ud1, d, Kb("items", Buttons(P_delete_item, DOMAIN items), {}), "choose_item")

\* select_list_for_delete_item
select_list_for_delete_item_new(d, ud, u, upd) ==
    LET list_name == replace(upd.data, P_delete_item_list)
        ud1 == Put(ud, "delete_item_list", list_name)
        items == get_list_items(d, u, list_name)
    IN  IF DOMAIN items = {} THEN R(END, ud1, d, NoKb, "empty_list")
        ELSE R(DELETE_ITEM, ud1, d, Kb("items", Buttons(P_delete_item, DOMAIN items), {}), "choose_item")

\* confirm_delete_item
confirm_delete_item_new(d, ud, u, upd) ==
    LET item_name == replace(upd.data, P_delete_item)
    IN  IF ~Truthy(ud, "delete_item_list") THEN R(END, ud, d, NoKb, "error")
        ELSE R(CONFIRM_DELETE, Put(ud, "delete_item_name", item_name), d,
               Kb("gate", {}, {T_confirm_delete_item, T_cancel_delete}), "confirm")

\* execute_delete_item
execute_delete_item_new(d, ud, u, upd) ==
    IF upd.data = T_cancel_delete THEN R(END, ud, d, NoKb, "kept")
    ELSE IF ~(Truthy(ud, "delete_item_list") /\ Truthy(ud, "delete_item_name"))
    THEN R(END, ud, d, NoKb, "error")
    ELSE LET res == delete_item(d, u, ud["delete_item_list"], ud["delete_item_name"])
         IN  R(END, ud, res[1], NoKb, IF res[2] THEN "deleted" ELSE "failed")

\* delete_rating_start
delete_rating_start_new(d, ud, u, upd) ==
    LET lists == get_all_lists(d, u)
    IN  IF lists = {} THEN R(END, ud, d, NoKb, "no_lists")
        ELSE R(DELETE_LIST, ud, d, Kb("lists", Buttons(P_delete_rating_list, lists), {}), "choose_list")

\* items_with_ratings
ItemsWithRatings(items) == {i \in DOMAIN items : items[i] # << >>}

\* select_list_for_delete_rating
select_list_for_delete_rating_new(d, ud, u, upd) ==
    LET list_name == replace(upd.data, P_delete_rating_list)
        ud1 == Put(ud, "delete_rating_list", list_name)
        items == get_list_items(d, u, list_name)
    IN  IF ItemsWithRatings(items) = {} THEN R(END, ud1, d, NoKb, "no_ratings")
        ELSE R(DELETE_ITEM, ud1, d,
               Kb("items", Buttons(P_delete_rating_item, ItemsWithRatings(items)), {}), "choose_item")

\* the buttons delete_rating_<i>, one per rating, i from 0
RatingButtons(ratings) == {P_delete_rating \o str(i) : i \in 0..(Len(ratings) - 1)}

\* select_item_for_delete_rating: "Delete ALL ratings" is always appended
select_item_for_delete_rating_new(d, ud, u, upd) ==
    LET item_name == replace(upd.data, P_delete_rating_item)
        list_name == Get(ud, "delete_rating_list")
    IN  IF ~Truthy(ud, "delete_rating_list") THEN R(END, ud, d, NoKb, "error")
        ELSE R(DELETE_RATING, Put(ud, "delete_rating_item", item_name), d,
               Kb("ratings", RatingButtons(get_item_ratings(d, u, list_name, item_name)),
                  {T_delete_all_ratings}), "choose_rating")

\* rating_info: the rating the confirmation prompt names, "<score>/10" and
\* the comment if there is one; the gate keyboard keeps it as its subject
rating_info(r) == <<"rating_info">> \o str(r[1]) \o r[2]

\* confirm_delete_rating: int() raises ValueError on a suffix that is no numeral,
\* ratings[rating_index] raises IndexError after delete_rating_index was written
confirm_delete_rating_new(d, ud, u, upd) ==
    LET list_name == Get(ud, "delete_rating_list")
        item_name == Get(ud, "delete_rating_item")
        suffix == replace(upd.data, P_delete_rating)
        ratings == get_item_ratings(d, u, list_name, item_name)
        gate == Kb("gate", {}, {T_confirm_delete_rating, T_cancel_delete})
    IN  IF ~(Truthy(ud, "delete_rating_list") /\ Truthy(ud, "delete_rating_item"))
        THEN R(END, ud, d, NoKb, "error")
        ELSE IF upd.data = T_delete_all_ratings
        THEN R(CONFIRM_DELETE, Put(ud, "delete_all_ratings", TRUE), d, gate, "confirm")
        ELSE IF ~IsInt(suffix) THEN R(RAISE, ud, d, NoKb, "raised")
        ELSE IF int(suffix) >= Len(ratings)
        THEN R(RAISE, Put(ud, "delete_rating_index", int(suffix)), d, NoKb, "raised")
        ELSE R(CONFIRM_DELETE, Put(ud, "delete_rating_index", int(suffix)), d,
               Kb("gate", {rating_info(ratings[int(suffix) + 1])},
                  {T_confirm_delete_rating, T_cancel_delete}), "confirm")

\* execute_delete_rating
execute_delete_rating_new(d, ud, u, upd) ==
    IF upd.data = T_cancel_delete THEN R(END, ud, d, NoKb, "kept")
    ELSE IF ~(Truthy(ud, "delete_rating_list") /\ Truthy(ud, "delete_rating_item"))
    THEN R(END, ud, d, NoKb, "error")
    ELSE IF "delete_all_ratings" \in DOMAIN ud /\ ud["delete_all_ratings"]
    THEN LET res == clear_ratings(d, u, ud["delete_rating_list"], ud["delete_rating_item"])
         IN  R(END, ud, res[1], NoKb, IF res[2] THEN "deleted_all" ELSE "failed")
    ELSE IF "delete_rating_index" \notin DOMAIN ud THEN R(END, ud, d, NoKb, "error")
    ELSE LET res == delete_rating(d, u, ud["delete_rating_list"], ud["delete_rating_item"],
                                  ud["delete_rating_index"])
         IN  R(END, ud, res[1], NoKb, IF res[2] THEN "deleted" ELSE "failed")

\* clear_ratings_start
clear_ratings_start_new(d, ud, u, upd) ==
    LET lists == get_all_lists(d, u)
    IN  IF lists = {} THEN R(END, ud, d, NoKb, "no_lists")
        ELSE R(DELETE_LIST, ud, d, Kb("lists", Buttons(P_clear_ratings_list, lists), {}), "choose_list")

\* select_list_for_clear_ratings
select_list_for_clear_ratings_new(d, ud, u, upd) ==
    LET list_name == replace(upd.data, P_clear_ratings_list)
        ud1 == Put(ud, "clear_ratings_list", list_name)
        items == get_list_items(d, u, list_name)
    IN  IF ItemsWithRatings(items) = {} THEN R(END, ud1, d, NoKb, "no_ratings")
        ELSE R(DELETE_ITEM, ud1, d,
               Kb("items", Buttons(P_clear_ratings_item, ItemsWithRatings(items)), {}), "choose_item")

\* confirm_clear_ratings
confirm_clear_ratings_new(d, ud, u, upd) ==
    LET item_name == replace(upd.data, P_clear_ratings_item)
    IN  IF ~Truthy(ud, "clear_ratings_list") THEN R(END, ud, d, NoKb, "error")
        ELSE R(CONFIRM_DELETE, Put(ud, "clear_ratings_item", item_name), d,
               Kb("gate", {}, {T_confirm_clear_ratings, T_cancel_clear}), "confirm")

\* execute_clear_ratings
execute_clear_ratings_new(d, ud, u, upd) ==
    IF upd.data = T_cancel_clear THEN R(END, ud, d, NoKb, "kept")
    ELSE IF ~(Truthy(ud, "clear_ratings_list") /\ Truthy(ud, "clear_ratings_item"))
    THEN R(END, ud, d, NoKb, "error")
    ELSE LET res == clear_ratings(d, u, ud["clear_ratings_list"], ud["clear_ratings_item"])
         IN  R(END, ud, res[1], NoKb, IF res[2] THEN "cleared" ELSE "failed")

(***************************************************************************)
(* The delete and clear handlers of bot_handlers_spanish.py.               *)
(***************************************************************************)
\* execute_delete_list deleting the named list of every user
execute_delete_list_es_anyuser(d, ud, u, upd) ==
    IF ~Truthy(ud, "delete_list_name") THEN R(END, ud, d, NoKb, "error")
    ELSE R(END, ud, [w \in DOMAIN d |-> IF ud["delete_list_name"] \in DOMAIN d[w]
                                        THEN Del(d[w], ud["delete_list_name"]) ELSE d[w]],
           NoKb, IF delete_list(d, u, ud["delete_list_name"])[2] THEN "deleted" ELSE "failed")

\* execute_delete_list
execute_delete_list_es(d, ud, u, upd) ==
    IF ~Truthy(ud, "delete_list_name") THEN R(END, ud, d, NoKb, "error")
    ELSE LET res == delete_list(d, u, ud["delete_list_name"])
         IN  R(END, ud, res[1], NoKb, IF res[2] THEN "deleted" ELSE "failed")

\* delete_item_start
delete_item_start_es(d, ud, u, upd) ==
    LET lists == get_all_lists(d, u)
    IN  IF lists = {} THEN R(END, ud, d, NoKb, "no_lists")
        ELSE R(DELETE_ITEM, ud, d, Kb("lists", Buttons(P_delete_item_list, lists), {}), "choose_list")

\* select_list_for_delete_item
select_list_for_delete_item_es(d, ud, u, upd) ==
    LET list_name == replace(upd.data, P_delete_item_list)
        ud1 == Put(ud, "delete_item_list", list_name)
        items == get_list_items(d, u, list_name)
    IN  IF DOMAIN items = {} THEN R(END, ud1, d, NoKb, "empty_list")
        ELSE R(CONFIRM_DELETE, ud1, d, Kb("items", Buttons(P_delete_item, DOMAIN items), {}), "choose_item")

\* confirm_delete_item
confirm_delete_item_es(d, ud, u, upd) ==
    LET item_name == replace(upd.data, P_delete_item)
    IN  R(CONFIRM_DELETE, Put(ud, "delete_item_name", item_name), d,
          Kb("gate", {}, {T_confirm_delete_item, T_cancel_delete}), "confirm")

\* execute_delete_item
execute_delete_item_es(d, ud, u, upd) ==
    IF ~(Truthy(ud, "delete_item_list") /\ Truthy(ud, "delete_item_name"))
    THEN R(END, ud, d, NoKb, "error")
    ELSE LET res == delete_item(d, u, ud["delete_item_list"], ud["delete_item_name"])
         IN  R(END, ud, res[1], NoKb, IF res[2] THEN "deleted" ELSE "failed")

\* delete_rating_start
delete_rating_start_es(d, ud, u, upd) ==
    LET lists == get_all_lists(d, u)
    IN  IF lists = {} THEN R(END, ud, d, NoKb, "no_lists")
        ELSE R(DELETE_RATING, ud, d, Kb("lists", Buttons(P_delete_rating_list, lists), {}), "choose_list")

\* select_list_for_delete_rating
select_list_for_delete_rating_es(d, ud, u, upd) ==
    LET list_name == replace(upd.data, P_delete_rating_list)
        ud1 == Put(ud, "delete_rating_list", list_name)
        items == get_list_items(d, u, list_name)
    IN  IF ItemsWithRatings(items) = {} THEN R(END, ud1, d, NoKb, "no_ratings")
        ELSE R(CONFIRM_DELETE, ud1, d,
               Kb("items", Buttons(P_delete_rating_item, ItemsWithRatings(items)), {}), "choose_item")

\* select_item_for_delete_rating: user_data.get("delete_rating_list") may be None
select_item_for_delete_rating_es(d, ud, u, upd) ==
    LET list_name == Get(ud, "delete_rating_list")
        item_name == replace(upd.data, P_delete_rating_item)
        ud1 == Put(ud, "delete_rating_item", item_name)
        ratings == get_item_ratings(d, u, list_name, item_name)
    IN  IF ratings = << >> THEN R(END, ud1, d, NoKb, "no_ratings")
        ELSE R(CONFIRM_DELETE, ud1, d, Kb("ratings", RatingButtons(ratings), {}), "choose_rating")

\* confirm_delete_rating (routed by ^delete_rating_\d+$, so int() succeeds)
confirm_delete_rating_es(d, ud, u, upd) ==
    LET suffix == replace(upd.data, P_delete_rating)
    IN  IF ~IsInt(suffix) THEN R(RAISE, ud, d, NoKb, "raised")
        ELSE R(CONFIRM_DELETE, Put(ud, "delete_rating_index", int(suffix)), d,
               Kb("gate", {}, {T_confirm_delete_rating, T_cancel_delete}), "confirm")

\* execute_delete_rating
execute_delete_rating_es(d, ud, u, upd) ==
    IF ~(Truthy(ud, "delete_rating_list") /\ Truthy(ud, "delete_rating_item")
         /\ "delete_rating_index" \in DOMAIN ud)
    THEN R(END, ud, d, NoKb, "error")
    ELSE LET res == delete_rating(d, u, ud["delete_rating_list"], ud["delete_rating_item"],
                                  ud["delete_rating_index"])
         IN  R(END, ud, res[1], NoKb, IF res[2] THEN "deleted" ELSE "failed")

\* clear_ratings_start
clear_ratings_start_es(d, ud, u, upd) ==
    LET lists == get_all_lists(d, u)
    IN  IF lists = {} THEN R(END, ud, d, NoKb, "no_lists")
        ELSE R(DELETE_RATING, ud, d, Kb("lists", Buttons(P_clear_ratings_list, lists), {}), "choose_list")

\* select_list_for_clear_ratings
select_list_for_clear_ratings_es(d, ud, u, upd) ==
    LET list_name == replace(upd.data, P_clear_ratings_list)
        ud1 == Put(ud, "clear_ratings_list", list_name)
        items == get_list_items(d, u, list_name)
    IN  IF ItemsWithRatings(items) = {} THEN R(END, ud1, d, NoKb, "no_ratings")
        ELSE R(CONFIRM_DELETE, ud1, d,
               Kb("items", Buttons(P_clear_ratings_item, ItemsWithRatings(items)), {}), "choose_item")

\* confirm_clear_ratings
confirm_clear_ratings_es(d, ud, u, upd) ==
    LET item_name == replace(upd.data, P_clear_ratings_item)
    IN  R(CONFIRM_DELETE, Put(ud, "clear_ratings_item", item_name), d,
          Kb("gate", {}, {T_confirm_clear_ratings, T_cancel_delete}), "confirm")

\* execute_clear_ratings
execute_clear_ratings_es(d, ud, u, upd) ==
    IF ~(Truthy(ud, "clear_ratings_list") /\ Truthy(ud, "clear_ratings_item"))
    THEN R(END, ud, d, NoKb, "error")
    ELSE LET res == clear_ratings(d, u, ud["clear_ratings_list"], ud["clear_ratings_item"])
         IN  R(END, ud, res[1], NoKb, IF res[2] THEN "cleared" ELSE "failed")

(***************************************************************************)
(* Routing: Dispatcher.process_update hands an update to the first handler *)
(* of group 0 whose check_update accepts it, and to no other.  A           *)
(* ConversationHandler (allow_reentry is False, keyed by chat and user)    *)
(* accepts, when the conversation is not running, what an entry point      *)
(* accepts; when it is running, what a handler of the current state        *)
(* accepts and, failing those, what a fallback accepts.                    *)
(***************************************************************************)
\* dispatcher.add_handler order of the conversation handlers
DispatchOrder(h) ==
    IF h = "new"
    THEN <<"add_item", "view_list", "rate_item", "view_ratings", "create_list",
           "delete_list", "delete_item", "delete_rating", "clear_ratings">>
    ELSE <<"create_list", "add_item", "view_list", "rate_item", "view_ratings",
           "delete_list", "delete_item", "delete_rating", "clear_ratings">>

\* entry_points: <<command, callback>> of each conversation
EntryPoint(f) ==
    CASE f = "create_list" -> <<"newlist", "new_list">>
      [] f = "add_item" -> <<"additem", "add_item_start">>
      [] f = "view_list" -> <<"viewlist", "view_list_start">>
      [] f = "rate_item" -> <<"rate", "rate_item_start">>
      [] f = "view_ratings" -> <<"ratings", "view_ratings_start">>
      [] f = "delete_list" -> <<"deletelist", "delete_list_start">>
      [] f = "delete_item" -> <<"deleteitem", "delete_item_start">>
      [] f = "delete_rating" -> <<"deleterating", "delete_rating_start">>
      [] f = "clear_ratings" -> <<"clearratings", "clear_ratings_start">>

\* check_update of one handler of a state: m names its filter or pattern
Match(m, upd) ==
    CASE m = "text" -> upd.kind = "text"
      [] m = "/skip" -> upd.kind = "command" /\ upd.cmd = "skip"
      [] m = "/cancel" -> upd.kind = "command" /\ upd.cmd = "cancel"
      [] m = "^add_to_" -> upd.kind = "callback" /\ StartsWith(upd.data, P_add_to)
      [] m = "^view_" -> upd.kind = "callback" /\ StartsWith(upd.data, P_view)
      [] m = "^rate_list_" -> upd.kind = "callback" /\ StartsWith(upd.data, P_rate_list)
      [] m = "^rate_item_" -> upd.kind = "callback" /\ StartsWith(upd.data, P_rate_item)
      [] m = "^give_rating_" -> upd.kind = "callback" /\ StartsWith(upd.data, P_give_rating)
      [] m = "^ratings_" -> upd.kind = "callback" /\ StartsWith(upd.data, P_ratings)
      [] m = "^delete_list_" -> upd.kind = "callback" /\ StartsWith(upd.data, P_delete_list)
      [] m = "^delete_item_list_" -> upd.kind = "callback" /\ StartsWith(upd.data, P_delete_item_list)
      [] m = "^delete_item_" -> upd.kind = "callback" /\ StartsWith(upd.data, P_delete_item)
      [] m = "^delete_rating_list_" -> upd.kind = "callback" /\ StartsWith(upd.data, P_delete_rating_list)
      [] m = "^delete_rating_item_" -> upd.kind = "callback" /\ StartsWith(upd.data, P_delete_rating_item)
      [] m = "^(delete_rating_|delete_all_ratings)" ->
            upd.kind = "callback" /\ (StartsWith(upd.data, P_delete_rating)
                                      \/ StartsWith(upd.data, T_delete_all_ratings))
      [] m = "^delete_rating_\\d+$" ->
            upd.kind = "callback" /\ StartsWith(upd.data, P_delete_rating)
            /\ IsInt(Drop(upd.data, Len(P_delete_rating)))
      [] m = "^clear_ratings_list_" -> upd.kind = "callback" /\ StartsWith(upd.data, P_clear_ratings_list)
      [] m = "^clear_ratings_item_" -> upd.kind = "callback" /\ StartsWith(upd.data, P_clear_ratings_item)
      [] m = "^(confirm_delete_list|cancel_delete)$" ->
            upd.kind = "callback" /\ upd.data \in {T_confirm_delete_list, T_cancel_delete}
      [] m = "^(confirm_delete_item|cancel_delete)$" ->
            upd.kind = "callback" /\ upd.data \in {T_confirm_delete_item, T_cancel_delete}
      [] m = "^(confirm_delete_rating|cancel_delete)$" ->
            upd.kind = "callback" /\ upd.data \in {T_confirm_delete_rating, T_cancel_delete}
      [] m = "^(confirm_clear_ratings|cancel_clear)$" ->
            upd.kind = "callback" /\ upd.data \in {T_confirm_clear_ratings, T_cancel_clear}
      [] m = "^confirm_delete_list$" -> upd.kind = "callback" /\ upd.data = T_confirm_delete_list
      [] m = "^confirm_delete_item$" -> upd.kind = "callback" /\ upd.data = T_confirm_delete_item
      [] m = "^confirm_delete_rating$" -> upd.kind = "callback" /\ upd.data = T_confirm_delete_rating
      [] m = "^confirm_clear_ratings$" -> upd.kind = "callback" /\ upd.data = T_confirm_clear_ratings
      [] m = "^cancel_delete$" -> upd.kind = "callback" /\ upd.data = T_cancel_delete

\* states= of the conversations that both sets declare alike
StatesShared(f, st) ==
    CASE f = "create_list" /\ st = CREATE_LIST -> << <<"text", "create_list">> >>
      [] f = "add_item" /\ st = SELECT_LIST -> << <<"^add_to_", "select_list_for_item">> >>
      [] f = "add_item" /\ st = ADD_ITEM -> << <<"text", "add_item_to_list">> >>
      [] f = "view_list" /\ st = SELECT_LIST -> << <<"^view_", "view_list_items">> >>
      [] f = "rate_item" /\ st = SELECT_LIST -> << <<"^rate_list_", "select_list_for_rating">> >>
      [] f = "rate_item" /\ st = SELECTING_ITEM_TO_RATE -> << <<"^rate_item_", "select_item_for_rating">> >>
      [] f = "rate_item" /\ st = RATE_ITEM -> << <<"^give_rating_", "apply_rating">> >>
      [] f = "rate_item" /\ st = ADD_COMMENT ->
            << <<"text", "add_rating_comment">>, <<"/skip", "skip_comment">> >>
      [] f = "view_ratings" /\ st = SELECT_LIST -> << <<"^ratings_", "view_list_ratings">> >>
      [] f = "delete_list" /\ st = DELETE_LIST -> << <<"^delete_list_", "confirm_delete_list">> >>
      [] OTHER -> << >>

\* states= of the delete conversations of bot_handlers_new.py
StatesNew(f, st) ==
    CASE f = "delete_list" /\ st = CONFIRM_DELETE ->
            << <<"^(confirm_delete_list|cancel_delete)$", "execute_delete_list">> >>
      [] f = "delete_item" /\ st = DELETE_LIST ->
            << <<"^delete_item_list_", "select_list_for_delete_item">> >>
      [] f = "delete_item" /\ st = DELETE_ITEM -> << <<"^delete_item_", "confirm_delete_item">> >>
      [] f = "delete_item" /\ st = CONFIRM_DELETE ->
            << <<"^(confirm_delete_item|cancel_delete)$", "execute_delete_item">> >>
      [] f = "delete_rating" /\ st = DELETE_LIST ->
            << <<"^delete_rating_list_", "select_list_for_delete_rating">> >>
      [] f = "delete_rating" /\ st = DELETE_ITEM ->
            << <<"^delete_rating_item_", "select_item_for_delete_rating">> >>
      [] f = "delete_rating" /\ st = DELETE_RATING ->
            << <<"^(delete_rating_|delete_all_ratings)", "confirm_delete_rating">> >>
      [] f = "delete_rating" /\ st = CONFIRM_DELETE ->
            << <<"^(confirm_delete_rating|cancel_delete)$", "execute_delete_rating">> >>
      [] f = "clear_ratings" /\ st = DELETE_LIST ->
            << <<"^clear_ratings_list_", "select_list_for_clear_ratings">> >>
      [] f = "clear_ratings" /\ st = DELETE_ITEM ->
            << <<"^clear_ratings_item_", "confirm_clear_ratings">> >>
      [] f = "clear_ratings" /\ st = CONFIRM_DELETE ->
            << <<"^(confirm_clear_ratings|cancel_clear)$", "execute_clear_ratings">> >>
      [] OTHER -> StatesShared(f, st)

\* states= of the delete conversations of bot_handlers_spanish.py
StatesEs(f, st) ==
    CASE f = "delete_list" /\ st = CONFIRM_DELETE ->
            << <<"^confirm_delete_list$", "execute_delete_list">>, <<"^cancel_delete$", "cancel">> >>
      [] f = "delete_item" /\ st = DELETE_ITEM ->
            << <<"^delete_item_list_", "select_list_for_delete_item">> >>
      [] f = "delete_item" /\ st = CONFIRM_DELETE ->
            << <<"^delete_item_", "confirm_delete_item">>,
               <<"^confirm_delete_item$", "execute_delete_item">>,
               <<"^cancel_delete$", "cancel">> >>
      [] f = "delete_rating" /\ st = DELETE_RATING ->
            << <<"^delete_rating_list_", "select_list_for_delete_rating">> >>
      [] f = "delete_rating" /\ st = CONFIRM_DELETE ->
            << <<"^delete_rating_item_", "select_item_for_delete_rating">>,
               <<"^delete_rating_\\d+$", "confirm_delete_rating">>,
               <<"^confirm_delete_rating$", "execute_delete_rating">>,
               <<"^cancel_delete$", "cancel">> >>
      [] f = "clear_ratings" /\ st = DELETE_RATING ->
            << <<"^clear_ratings_list_", "select_list_for_clear_ratings">> >>
      [] f = "clear_ratings" /\ st = CONFIRM_DELETE ->
            << <<"^clear_ratings_item_", "confirm_clear_ratings">>,
               <<"^confirm_clear_ratings$", "execute_clear_ratings">>,
               <<"^cancel_delete$", "cancel">> >>
      [] OTHER -> StatesShared(f, st)

\* the handlers of state st of conversation f, each as <<matcher, callback>>
StateHandlers(h, f, st) == IF h = "new" THEN StatesNew(f, st) ELSE StatesEs(f, st)

\* the first element of a sequence of <<matcher, callback>> that accepts upd
FirstMatch(hl, upd) ==
    LET hits == {k \in 1..Len(hl) : Match(hl[k][1], upd)}
    IN  IF hits = {} THEN ""
        ELSE hl[CHOOSE k \in hits : \A j \in hits : k <= j][2]

\* ConversationHandler.check_update: the callback chosen for upd, or ""
ConvCheck(h, f, st, upd) ==
    IF st = END
    THEN IF upd.kind = "command" /\ upd.cmd = EntryPoint(f)[1] THEN EntryPoint(f)[2] ELSE ""
    ELSE LET hit == FirstMatch(StateHandlers(h, f, st), upd)
         IN  IF hit # "" THEN hit
             ELSE FirstMatch(<< <<"/cancel", "cancel">> >>, upd)

\* the commands of the plain CommandHandlers added before the conversations
BasicCommands == {"start", "help", "lists"}

\* Dispatcher.process_update: <<flow, callback>> of the one handler that gets upd;
\* flow is "" for a handler outside the conversations, callback "" when none accepts
Route(h, cv, c, u, upd) ==
    LET order == DispatchOrder(h)
        hits == {k \in 1..Len(order) : ConvCheck(h, order[k], cv[<<c, u, order[k]>>], upd) # ""}
    IN  IF upd.kind = "command" /\ upd.cmd \in BasicCommands THEN <<"", upd.cmd>>
        ELSE IF hits # {}
        THEN LET k == CHOOSE k \in hits : \A j \in hits : k <= j
             IN  <<order[k], ConvCheck(h, order[k], cv[<<c, u, order[k]>>], upd)>>
        ELSE IF h = "es" /\ upd.kind = "command"
        THEN IF upd.cmd = "cancel" THEN <<"", "cancel">> ELSE <<"", "help">>
        ELSE <<"", "">>

(***************************************************************************)
(* One update handled: the dispatcher routes upd of user u in chat c to    *)
(* callback h of conversation f (f = "" outside the conversations), the    *)
(* callback runs, and ConversationHandler.handle_update stores the state   *)
(* it returned (END removes the conversation's key; a callback that raised *)
(* leaves the state as it was, and what it wrote to user_data stays).      *)
(* kb is the keyboard of each conversation's latest reply; last is the     *)
(* update just handled with its route, what is_admin is for it (member is  *)
(* the outcome of the membership lookup, "n/a" where the command is not    *)
(* one of the admin-classified ones), and the reply.  script is the list   *)
(* of updates a scripted user still has to send (empty for a free user).   *)
(* call is the latest direct call of a DataStore method (see the store     *)
(* specification below); the handlers leave it alone.  running is the set  *)
(* of handler invocations that have begun and not yet returned (see the    *)
(* dispatch specification below): a callback taken as one step leaves it   *)
(* as it is.                                                               *)
(***************************************************************************)
\* the callbacks of the entry points
EntryCallbacks == {EntryPoint(f)[2] : f \in Flows}

Handled(c, u, upd, f, h, member, res) ==
    /\ h \in EntryCallbacks /\ script.todo = << >> => starts < MaxStarts
    /\ f # "" => ConvCheck(hs, f, conv[<<c, u, f>>], upd) = h
    /\ Route(hs, conv, c, u, upd) = <<f, h>>
    /\ data' = res.d
    /\ user_data' = [user_data EXCEPT ![u] = res.ud]
    /\ conv' = IF f = "" \/ res.st = RAISE THEN conv ELSE [conv EXCEPT ![<<c, u, f>>] = res.st]
    /\ kb' = IF f = "" \/ res.st = RAISE THEN kb ELSE [kb EXCEPT ![<<c, u, f>>] = res.k]
    /\ last' = [chat |-> c, user |-> u, upd |-> upd, flow |-> f, handler |-> h,
                member |-> member,
                admin |-> IF member = "n/a" THEN "n/a"
                          ELSE IF is_admin(c, member) THEN "yes" ELSE "no",
                st |-> res.st, msg |-> res.msg]
    /\ starts' = IF h \in EntryCallbacks THEN starts + 1 ELSE starts
    /\ script' = IF script.todo = << >> THEN script ELSE [script EXCEPT !.todo = Tail(@)]
    /\ hs' = hs
    /\ call' = call

\* one update handled in one step
Step(c, u, upd, f, h, member, res) ==
    /\ Handled(c, u, upd, f, h, member, res)
    /\ running' = running

\* start, help_command: reply with the command list (is_admin picks the text)
A_start(c, u, upd, member) ==
    Step(c, u, upd, "", "start", member, R(END, user_data[u], data, NoKb, "help"))

A_help_command(c, u, upd, member) ==
    Step(c, u, upd, "", "help", member, R(END, user_data[u], data, NoKb, "help"))

\* show_lists
A_show_lists(c, u, upd) ==
    Step(c, u, upd, "", "lists", "n/a",
         R(END, user_data[u], data, NoKb,
           IF get_all_lists(data, u) = {} THEN "no_lists" ELSE "listing"))

\* new_list: decorated with admin_required in bot_handlers_spanish.py only
A_new_list(c, u, upd, member) ==
    Step(c, u, upd, "create_list", "new_list", member,
         IF hs = "new" THEN new_list(data, user_data[u], u, upd)
         ELSE admin_required(new_list(data, user_data[u], u, upd),
                             data, user_data[u], c, member, upd))

\* delete_list_start, decorated in both sets
A_delete_list_start(c, u, upd, member) ==
    Step(c, u, upd, "delete_list", "delete_list_start", member,
         admin_required(delete_list_start(data, user_data[u], u, upd),
                        data, user_data[u], c, member, upd))

\* delete_item_start, decorated in both sets
A_delete_item_start(c, u, upd, member) ==
    Step(c, u, upd, "delete_item", "delete_item_start", member,
         admin_required(IF hs = "new" THEN delete_item_start_new(data, user_data[u], u, upd)
                        ELSE delete_item_start_es(data, user_data[u], u, upd),
                        data, user_data[u], c, member, upd))

\* delete_rating_start, decorated in both sets
A_delete_rating_start(c, u, upd, member) ==
    Step(c, u, upd, "delete_rating", "delete_rating_start", member,
         admin_required(IF hs = "new" THEN delete_rating_start_new(data, user_data[u], u, upd)
                        ELSE delete_rating_start_es(data, user_data[u], u, upd),
                        data, user_data[u], c, member, upd))

\* clear_ratings_start, decorated in both sets
A_clear_ratings_start(c, u, upd, member) ==
    Step(c, u, upd, "clear_ratings", "clear_ratings_start", member,
         admin_required(IF hs = "new" THEN clear_ratings_start_new(data, user_data[u], u, upd)
                        ELSE clear_ratings_start_es(data, user_data[u], u, upd),
                        data, user_data[u], c, member, upd))

A_create_list(c, u, upd) ==
    Step(c, u, upd, "create_list", "create_list", "n/a", create_list(data, user_data[u], u, upd))

A_add_item_start(c, u, upd) ==
    Step(c, u, upd, "add_item", "add_item_start", "n/a", add_item_start(data, user_data[u], u, upd))

A_select_list_for_item(c, u, upd) ==
    Step(c, u, upd, "add_item", "select_list_for_item", "n/a", select_list_for_item(data, user_data[u], u, upd))

A_add_item_to_list(c, u, upd) ==
    Step(c, u, upd, "add_item", "add_item_to_list", "n/a", add_item_to_list(data, user_data[u], u, upd))

A_view_list_start(c, u, upd) ==
    Step(c, u, upd, "view_list", "view_list_start", "n/a", view_list_start(data, user_data[u], u, upd))

A_view_list_items(c, u, upd) ==
    Step(c, u, upd, "view_list", "view_list_items", "n/a", view_list_items(data, user_data[u], u, upd))

A_rate_item_start(c, u, upd) ==
    Step(c, u, upd, "rate_item", "rate_item_start", "n/a", rate_item_start(data, user_data[u], u, upd))

A_select_list_for_rating(c, u, upd) ==
    Step(c, u, upd, "rate_item", "select_list_for_rating", "n/a", select_list_for_rating(data, user_data[u], u, upd))

A_select_item_for_rating(c, u, upd) ==
    Step(c, u, upd, "rate_item", "select_item_for_rating", "n/a", select_item_for_rating(data, user_data[u], u, upd))

A_apply_rating(c, u, upd) ==
    Step(c, u, upd, "rate_item", "apply_rating", "n/a", apply_rating(data, user_data[u], u, upd))

A_view_ratings_start(c, u, upd) ==
    Step(c, u, upd, "view_ratings", "view_ratings_start", "n/a", view_ratings_start(data, user_data[u], u, upd))

A_view_list_ratings(c, u, upd) ==
    Step(c, u, upd, "view_ratings", "view_list_ratings", "n/a", view_list_ratings(data, user_data[u], u, upd))

A_confirm_delete_list(c, u, upd) ==
    Step(c, u, upd, "delete_list", "confirm_delete_list", "n/a", confirm_delete_list(data, user_data[u], u, upd))

\* the store keeps at most MaxRatings ratings on an item
RoomToRate(u) ==
    LET ud == user_data[u]
    IN  Len(get_item_ratings(data, u, Get(ud, "rating_list"), Get(ud, "rating_item"))) < MaxRatings

A_add_rating_comment(c, u, upd) ==
    /\ RoomToRate(u)
    /\ Step(c, u, upd, "rate_item", "add_rating_comment", "n/a",
            add_rating_comment(data, user_data[u], u, upd))

A_skip_comment(c, u, upd) ==
    /\ RoomToRate(u)
    /\ Step(c, u, upd, "rate_item", "skip_comment", "n/a",
            skip_comment(data, user_data[u], u, upd))

A_execute_delete_list(c, u, upd) ==
    Step(c, u, upd, "delete_list", "execute_delete_list", "n/a",
         IF hs = "new" THEN execute_delete_list_new(data, user_data[u], u, upd)
         ELSE execute_delete_list_es(data, user_data[u], u, upd))

A_select_list_for_delete_item(c, u, upd) ==
    Step(c, u, upd, "delete_item", "select_list_for_delete_item", "n/a",
         IF hs = "new" THEN select_list_for_delete_item_new(data, user_data[u], u, upd)
         ELSE select_list_for_delete_item_es(data, user_data[u], u, upd))

A_confirm_delete_item(c, u, upd) ==
    Step(c, u, upd, "delete_item", "confirm_delete_item", "n/a",
         IF hs = "new" THEN confirm_delete_item_new(data, user_data[u], u, upd)
         ELSE confirm_delete_item_es(data, user_data[u], u, upd))

A_execute_delete_item(c, u, upd) ==
    Step(c, u, upd, "delete_item", "execute_delete_item", "n/a",
         IF hs = "new" THEN execute_delete_item_new(data, user_data[u], u, upd)
         ELSE execute_delete_item_es(data, user_data[u], u, upd))

A_select_list_for_delete_rating(c, u, upd) ==
    Step(c, u, upd, "delete_rating", "select_list_for_delete_rating", "n/a",
         IF hs = "new" THEN select_list_for_delete_rating_new(data, user_data[u], u, upd)
         ELSE select_list_for_delete_rating_es(data, user_data[u], u, upd))

A_select_item_for_delete_rating(c, u, upd) ==
    Step(c, u, upd, "delete_rating", "select_item_for_delete_rating", "n/a",
         IF hs = "new" THEN select_item_for_delete_rating_new(data, user_data[u], u, upd)
         ELSE select_item_for_delete_rating_es(data, user_data[u], u, upd))

A_confirm_delete_rating(c, u, upd) ==
    Step(c, u, upd, "delete_rating", "confirm_delete_rating", "n/a",
         IF hs = "new" THEN confirm_delete_rating_new(data, user_data[u], u, upd)
         ELSE confirm_delete_rating_es(data, user_data[u], u, upd))

A_execute_delete_rating(c, u, upd) ==
    Step(c, u, upd, "delete_rating", "execute_delete_rating", "n/a",
         IF hs = "new" THEN execute_delete_rating_new(data, user_data[u], u, upd)
         ELSE execute_delete_rating_es(data, user_data[u], u, upd))

A_select_list_for_clear_ratings(c, u, upd) ==
    Step(c, u, upd, "clear_ratings", "select_list_for_clear_ratings", "n/a",
         IF hs = "new" THEN select_list_for_clear_ratings_new(data, user_data[u], u, upd)
         ELSE select_list_for_clear_ratings_es(data, user_data[u], u, upd))

A_confirm_clear_ratings(c, u, upd) ==
    Step(c, u, upd, "clear_ratings", "confirm_clear_ratings", "n/a",
         IF hs = "new" THEN confirm_clear_ratings_new(data, user_data[u], u, upd)
         ELSE confirm_clear_ratings_es(data, user_data[u], u, upd))

A_execute_clear_ratings(c, u, upd) ==
    Step(c, u, upd, "clear_ratings", "execute_clear_ratings", "n/a",
         IF hs = "new" THEN execute_clear_ratings_new(data, user_data[u], u, upd)
         ELSE execute_clear_ratings_es(data, user_data[u], u, upd))

\* cancel: a fallback of every conversation, the handler of the cancel buttons
\* of bot_handlers_spanish.py, and there the CommandHandler after the conversations
A_cancel(c, u, upd) ==
    \E f \in Flows \cup {""} :
        Step(c, u, upd, f, "cancel", "n/a", cancel(data, user_data[u], u, upd))

\* Dispatcher.process_update when no handler of the group accepts upd: the
\* update is dropped, no callback runs and nothing is replied
A_unhandled(c, u, upd) ==
    /\ Route(hs, conv, c, u, upd) = <<"", "">>
    /\ last' = [chat |-> c, user |-> u, upd |-> upd, flow |-> "", handler |-> "",
                member |-> "n/a", admin |-> "n/a", st |-> END, msg |-> ""]
    /\ UNCHANGED <<hs, data, conv, user_data, kb, starts, script, call, running>>

(***************************************************************************)
(* A callback taken in two steps, for the two callbacks that test the      *)
(* store and then write to it: create_list (list_exists, then create_list) *)
(* and add_item_to_list (item_exists, then add_item).  Begin runs the      *)
(* callback up to the test and keeps what it read; End runs the rest with  *)
(* that.  The Updater of setup_bot has one dispatcher thread, which calls  *)
(* a callback and waits for it to return, no handler being registered with *)
(* run_async: a callback begins only when none is running.                 *)
(***************************************************************************)
\* a dispatcher that hands callbacks to a pool of two threads (run_async)
DispatcherFree_async(w) == Cardinality(w) < 2

\* the dispatcher thread is ready for the next update
DispatcherFree(w) == w = {}

\* one invocation in flight: list is the name the test was made for, seen its outcome
Job(c, u, upd, f, h, list, seen) ==
    [chat |-> c, user |-> u, upd |-> upd, flow |-> f, handler |-> h, list |-> list, seen |-> seen]

\* create_list up to and with data_store.list_exists
D_create_list_begin(c, u, upd) ==
    /\ DispatcherFree(running)
    /\ Route(hs, conv, c, u, upd) = <<"create_list", "create_list">>
    /\ running' = running \cup {Job(c, u, upd, "create_list", "create_list", upd.data,
                                     list_exists(data, u, upd.data))}
    /\ UNCHANGED <<hs, data, conv, user_data, kb, last, starts, script, call>>

\* create_list after the test
create_list_rest(d, ud, u, upd, seen) ==
    IF seen THEN R(CREATE_LIST, ud, d, NoKb, "duplicate")
    ELSE R(END, ud, data_store_create_list(d, u, upd.data), NoKb, "created")

D_create_list_end(j) ==
    /\ j.handler = "create_list"
    /\ Handled(j.chat, j.user, j.upd, j.flow, j.handler, "n/a",
               create_list_rest(data, user_data[j.user], j.user, j.upd, j.seen))
    /\ running' = running \ {j}

\* add_item_to_list up to and with data_store.item_exists
D_add_item_to_list_begin(c, u, upd) ==
    /\ DispatcherFree(running)
    /\ Route(hs, conv, c, u, upd) = <<"add_item", "add_item_to_list">>
    /\ LET list_name == Get(user_data[u], "selected_list")
       IN  running' = running \cup
              {Job(c, u, upd, "add_item", "add_item_to_list", list_name,
                   Truthy(user_data[u], "selected_list")
                   /\ item_exists(data, u, list_name, upd.data))}
    /\ UNCHANGED <<hs, data, conv, user_data, kb, last, starts, script, call>>

\* add_item_to_list after the test
add_item_to_list_rest(d, ud, u, upd, list_name, seen) ==
    IF list_name \in {None, << >>} THEN R(END, ud, d, NoKb, "error")
    ELSE IF seen THEN R(ADD_ITEM, ud, d, NoKb, "duplicate")
    ELSE R(END, ud, data_store_add_item(d, u, list_name, upd.data), NoKb, "added")

D_add_item_to_list_end(j) ==
    /\ j.handler = "add_item_to_list"
    /\ Handled(j.chat, j.user, j.upd, j.flow, j.handler, "n/a",
               add_item_to_list_rest(data, user_data[j.user], j.user, j.upd, j.list, j.seen))
    /\ running' = running \ {j}

(***************************************************************************)
(* The updates the transport delivers.                                     *)
(***************************************************************************)
\* the list names, item names and comments a user types
Texts == {<<"A">>, <<"x">>}

\* the scores a give_rating_ token may carry: 11 is off the keyboard
ScoreInputs == {0, 10, 11}

\* a command in each of the given text forms
Cmds(cmd, forms) == {CmdUpdate(cmd, form) : form \in forms}

TextUpdates == {TextUpdate(t) : t \in Texts}

NamePrefixes == {P_add_to, P_view, P_rate_list, P_rate_item, P_ratings, P_delete_list,
                 P_delete_item, P_delete_item_list, P_delete_rating_list,
                 P_delete_rating_item, P_clear_ratings_list, P_clear_ratings_item}

\* callback data of the buttons the handlers build, for the names of Texts
Tokens ==
    {p \o n : p \in NamePrefixes, n \in Texts}
    \cup {P_give_rating \o str(k) : k \in ScoreInputs}
    \cup {P_delete_rating \o str(k) : k \in 0..MaxRatings}
    \cup {T_delete_all_ratings, T_confirm_delete_list, T_confirm_delete_item,
          T_confirm_delete_rating, T_confirm_clear_ratings, T_cancel_delete, T_cancel_clear}

CallbackUpdates == {CallbackUpdate(t) : t \in Tokens}

\* the callback updates a pattern accepts
Accepted(m) == {upd \in CallbackUpdates : Match(m, upd)}

U_add_to == Accepted("^add_to_")
U_view == Accepted("^view_")
U_rate_list == Accepted("^rate_list_")
U_rate_item == Accepted("^rate_item_")
U_give_rating == Accepted("^give_rating_")
U_ratings == Accepted("^ratings_")
U_delete_list == Accepted("^delete_list_")
U_delete_item_list == Accepted("^delete_item_list_")
U_delete_item == Accepted("^delete_item_")
U_delete_rating_list == Accepted("^delete_rating_list_")
U_delete_rating_item == Accepted("^delete_rating_item_")
U_delete_rating == Accepted("^(delete_rating_|delete_all_ratings)")
U_clear_ratings_list == Accepted("^clear_ratings_list_")
U_clear_ratings_item == Accepted("^clear_ratings_item_")
U_gate_delete_list == Accepted("^(confirm_delete_list|cancel_delete)$")
U_gate_delete_item == Accepted("^(confirm_delete_item|cancel_delete)$")
U_gate_delete_rating == Accepted("^(confirm_delete_rating|cancel_delete)$")
U_gate_clear_ratings == Accepted("^(confirm_clear_ratings|cancel_clear)$")
U_cancel == Cmds("cancel", {"bare"}) \cup Accepted("^cancel_delete$")

(***************************************************************************)
(* Initial states.  The process starts with an empty store and no          *)
(* user_data; the other initial states are the ones the user reaches by    *)
(* building a list "A" with an item "x" and rating it, with the user_data  *)
(* the add-item and rate-item flows leave behind, all conversations ended. *)
(***************************************************************************)
StoreOf(lists) == [u \in Users |-> lists]

Built ==
    { [d |-> StoreOf(<< >>), ud |-> << >>],
      [d |-> StoreOf(<<"A">> :> << >>), ud |-> << >>],
      [d |-> StoreOf(<<"A">> :> (<<"x">> :> << >>)),
       ud |-> ("selected_list" :> <<"A">>)],
      [d |-> StoreOf(<<"A">> :> (<<"x">> :> << <<10, << >> >> >>)),
       ud |-> ("selected_list" :> <<"A">>) @@ ("rating_list" :> <<"A">>)
              @@ ("rating_item" :> <<"x">>) @@ ("temp_rating" :> 10)] }

NoUpdate == [data |-> << >>, cmd |-> "", form |-> "", kind |-> ""]

NoScript == [comment |-> << >>, todo |-> << >>, list |-> << >>, item |-> << >>, score |-> 0]

\* no DataStore method called directly yet
NoCall == [op |-> "", user |-> "", list |-> << >>, item |-> << >>, arg |-> 0,
           comment |-> << >>, ret |-> "None", n |-> 0]

\* everything but the store, user_data and the script
InitEngine ==
    /\ hs \in {"new", "es"}
    /\ conv = [k \in Chats \X Users \X Flows |-> END]
    /\ kb = [k \in Chats \X Users \X Flows |-> NoKb]
    /\ last = [chat |-> "", user |-> "", upd |-> NoUpdate, flow |-> "", handler |-> "",
               member |-> "n/a", admin |-> "n/a", st |-> END, msg |-> ""]
    /\ starts = 0
    /\ call = NoCall
    /\ running = {}

Init ==
    /\ \E b \in Built : data = b.d /\ user_data = [u \in Users |-> b.ud]
    /\ script = NoScript
    /\ InitEngine

(***************************************************************************)
(* The engine: every conversation handler of both sets, for one user in    *)
(* one chat, the private one, where is_admin is true (SpecAdmin has the    *)
(* group chat).  The admin-only commands come bare and with "@botname".    *)
(***************************************************************************)
ChatsG == {"priv"}
FormsG == {"bare", "atbot"}
MembersG == {"member"}

EntryG(c, u) ==
    \/ \E upd \in Cmds("newlist", FormsG), member \in MembersG :
          A_new_list(c, u, upd, member)
    \/ \E upd \in Cmds("additem", {"bare"}) : A_add_item_start(c, u, upd)
    \/ \E upd \in Cmds("viewlist", {"bare"}) : A_view_list_start(c, u, upd)
    \/ \E upd \in Cmds("rate", {"bare"}) : A_rate_item_start(c, u, upd)
    \/ \E upd \in Cmds("ratings", {"bare"}) : A_view_ratings_start(c, u, upd)
    \/ \E upd \in Cmds("deletelist", FormsG), member \in MembersG :
          A_delete_list_start(c, u, upd, member)
    \/ \E upd \in Cmds("deleteitem", FormsG), member \in MembersG :
          A_delete_item_start(c, u, upd, member)
    \/ \E upd \in Cmds("deleterating", FormsG), member \in MembersG :
          A_delete_rating_start(c, u, upd, member)
    \/ \E upd \in Cmds("clearratings", FormsG), member \in MembersG :
          A_clear_ratings_start(c, u, upd, member)

UserFlows(c, u) ==
    \/ \E upd \in TextUpdates : A_create_list(c, u, upd)
    \/ \E upd \in U_add_to : A_select_list_for_item(c, u, upd)
    \/ \E upd \in TextUpdates : A_add_item_to_list(c, u, upd)
    \/ \E upd \in U_view : A_view_list_items(c, u, upd)
    \/ \E upd \in U_rate_list : A_select_list_for_rating(c, u, upd)
    \/ \E upd \in U_rate_item : A_select_item_for_rating(c, u, upd)
    \/ \E upd \in U_give_rating : A_apply_rating(c, u, upd)
    \/ \E upd \in TextUpdates : A_add_rating_comment(c, u, upd)
    \/ \E upd \in Cmds("skip", {"bare"}) : A_skip_comment(c, u, upd)
    \/ \E upd \in U_ratings : A_view_list_ratings(c, u, upd)

DeleteFlows(c, u) ==
    \/ \E upd \in U_delete_list : A_confirm_delete_list(c, u, upd)
    \/ \E upd \in U_gate_delete_list : A_execute_delete_list(c, u, upd)
    \/ \E upd \in U_delete_item_list : A_select_list_for_delete_item(c, u, upd)
    \/ \E upd \in U_delete_item : A_confirm_delete_item(c, u, upd)
    \/ \E upd \in U_gate_delete_item : A_execute_delete_item(c, u, upd)
    \/ \E upd \in U_delete_rating_list : A_select_list_for_delete_rating(c, u, upd)
    \/ \E upd \in U_delete_rating_item : A_select_item_for_delete_rating(c, u, upd)
    \/ \E upd \in U_delete_rating : A_confirm_delete_rating(c, u, upd)
    \/ \E upd \in U_gate_delete_rating : A_execute_delete_rating(c, u, upd)
    \/ \E upd \in U_clear_ratings_list : A_select_list_for_clear_ratings(c, u, upd)
    \/ \E upd \in U_clear_ratings_item : A_confirm_clear_ratings(c, u, upd)
    \/ \E upd \in U_gate_clear_ratings : A_execute_clear_ratings(c, u, upd)

Next ==
    \E c \in ChatsG, u \in Users :
        \/ EntryG(c, u)
        \/ UserFlows(c, u)
        \/ DeleteFlows(c, u)
        \/ \E upd \in U_cancel : A_cancel(c, u, upd)

Spec == Init /\ [][Next]_vars

(***************************************************************************)
(* The access policy: the entry commands of the admin-classified flows in  *)
(* every text form, with every outcome of the membership lookup, the       *)
(* commands start and help that also ask is_admin, and the await-name step *)
(* of create-list.                                                         *)
(***************************************************************************)
NextAdmin ==
    \E c \in Chats, u \in Users :
        \/ \E upd \in Cmds("start", {"bare"}), member \in Members : A_start(c, u, upd, member)
        \/ \E upd \in Cmds("help", {"bare"}), member \in Members : A_help_command(c, u, upd, member)
        \/ \E upd \in Cmds("lists", {"bare"}) : A_show_lists(c, u, upd)
        \/ \E upd \in Cmds("newlist", Forms), member \in Members : A_new_list(c, u, upd, member)
        \/ \E upd \in Cmds("deletelist", Forms), member \in Members :
              A_delete_list_start(c, u, upd, member)
        \/ \E upd \in Cmds("deleteitem", Forms), member \in Members :
              A_delete_item_start(c, u, upd, member)
        \/ \E upd \in Cmds("deleterating", Forms), member \in Members :
              A_delete_rating_start(c, u, upd, member)
        \/ \E upd \in Cmds("clearratings", Forms), member \in Members :
              A_clear_ratings_start(c, u, upd, member)
        \/ \E upd \in TextUpdates : A_create_list(c, u, upd)

\* the user has no list, or the one list A
InitAdmin ==
    /\ \E lists \in {<< >>, <<"A">> :> << >>} : data = StoreOf(lists)
    /\ user_data = [u \in Users |-> << >>]
    /\ script = NoScript
    /\ InitEngine

SpecAdmin == InitAdmin /\ [][NextAdmin]_vars

(***************************************************************************)
(* The entry points: every entry command in both chats, with create-list   *)
(* and delete-list run to their end so that the user's lists come and go   *)
(* while other flows are open, and the cancel command.                     *)
(***************************************************************************)
NextEntry ==
    \E c \in Chats, u \in Users :
        \/ EntryG(c, u)
        \/ \E upd \in TextUpdates : A_create_list(c, u, upd)
        \/ \E upd \in U_delete_list : A_confirm_delete_list(c, u, upd)
        \/ \E upd \in U_gate_delete_list : A_execute_delete_list(c, u, upd)
        \/ \E upd \in U_cancel : A_cancel(c, u, upd)

SpecEntry == Init /\ [][NextEntry]_vars

(***************************************************************************)
(* Intents out of turn: the create-list and rate-item conversations, and   *)
(* next to the updates their states await, the updates they do not: the    *)
(* entry commands again, a command that is not one of the bot's, typed     *)
(* text, and tokens of this and of another flow.  The dispatcher hands     *)
(* each to the first handler that accepts it (show_lists for /lists, in    *)
(* bot_handlers_spanish.py help_command for any other command), or drops   *)
(* it.                                                                     *)
(***************************************************************************)
\* the commands sent out of turn
StrayCmds == Cmds("rate", {"bare"}) \cup Cmds("newlist", {"bare"}) \cup Cmds("foo", {"bare"})

\* every update sent out of turn
Strays == StrayCmds \cup TextUpdates \cup U_view \cup U_rate_list \cup U_give_rating

NextIntent ==
    \E c \in ChatsG, u \in Users :
        \/ \E upd \in Cmds("newlist", {"bare"}), member \in MembersG :
              A_new_list(c, u, upd, member)
        \/ \E upd \in Cmds("rate", {"bare"}) : A_rate_item_start(c, u, upd)
        \/ \E upd \in TextUpdates : A_create_list(c, u, upd)
        \/ \E upd \in U_rate_list : A_select_list_for_rating(c, u, upd)
        \/ \E upd \in U_rate_item : A_select_item_for_rating(c, u, upd)
        \/ \E upd \in U_give_rating : A_apply_rating(c, u, upd)
        \/ \E upd \in TextUpdates : A_add_rating_comment(c, u, upd)
        \/ \E upd \in Cmds("skip", {"bare"}) : A_skip_comment(c, u, upd)
        \/ \E upd \in Cmds("lists", {"bare"}) : A_show_lists(c, u, upd)
        \/ \E upd \in StrayCmds, member \in MembersG : A_help_command(c, u, upd, member)
        \/ \E upd \in Cmds("cancel", {"bare"}) : A_cancel(c, u, upd)
        \/ \E upd \in Strays : A_unhandled(c, u, upd)

SpecIntent == Init /\ [][NextIntent]_vars

(***************************************************************************)
(* The DataStore called directly: every method, with names of lists and    *)
(* items that exist and that do not, scores and rating indexes inside and  *)
(* outside their ranges, for two users.  call records the latest call:     *)
(* the method, its arguments, what it returned and the number of calls     *)
(* made so far.  The store starts empty or built up by earlier calls.      *)
(***************************************************************************)
StoreUsers == {"u1", "u2"}

\* two list names that differ in letter case only
StoreLists == {<<"A">>, <<"a">>}

StoreItems == {<<"x">>, <<"y">>}

\* the user, list and item a call names: the second user keeps to list A, item x
ListTargets == ({"u1"} \X StoreLists) \cup {<<"u2", <<"A">>>>}
ItemTargets == ({"u1"} \X StoreLists \X StoreItems) \cup {<<"u2", <<"A">>, <<"x">>>>}

\* scores below, at the ends of and above the range
StoreScores == {-1, 0, 10, 11}

\* the comment argument of add_rating: NoComment when the caller leaves it out
NoComment == <<"(not passed)">>
CommentArgs == {NoComment, <<"c">>}

\* rating indexes: negative, in range, and past the end
StoreIndexes == -1..MaxIndex

\* the stores at the start: empty, and one built by create_list, add_item and add_rating
StoreBuilt ==
    { [u \in StoreUsers |-> EmptyDict],
      ("u1" :> (<<"A">> :> (<<"x">> :> << <<10, << >> >>, <<0, <<"c">> >>, <<10, <<"c">> >> >>
                           @@ <<"y">> :> << <<0, << >> >> >>)
                @@ <<"a">> :> EmptyDict))
      @@ ("u2" :> (<<"A">> :> (<<"x">> :> << <<10, << >> >> >>))) }

\* one call of a method: d2 is the store it leaves, ret what it returns
StoreCall(op, u, l, i, arg, cm, d2, ret) ==
    /\ call.n < MaxCalls
    /\ data' = d2
    /\ call' = [op |-> op, user |-> u, list |-> l, item |-> i, arg |-> arg,
                comment |-> cm, ret |-> ret, n |-> call.n + 1]
    /\ UNCHANGED <<hs, conv, user_data, kb, last, starts, script, running>>

S_create_list(u, l) ==
    StoreCall("create_list", u, l, << >>, 0, << >>, data_store_create_list(data, u, l), "None")

S_list_exists(u, l) ==
    StoreCall("list_exists", u, l, << >>, 0, << >>, data, list_exists(data, u, l))

S_get_all_lists(u) ==
    StoreCall("get_all_lists", u, << >>, << >>, 0, << >>, data, get_all_lists(data, u))

S_add_item(u, l, i) ==
    StoreCall("add_item", u, l, i, 0, << >>, data_store_add_item(data, u, l, i), "None")

S_item_exists(u, l, i) ==
    StoreCall("item_exists", u, l, i, 0, << >>,
              after_item_exists(data, u, l, i), item_exists(data, u, l, i))

S_get_list_items(u, l) ==
    StoreCall("get_list_items", u, l, << >>, 0, << >>,
              after_get_list_items(data, u, l), get_list_items(data, u, l))

\* the comment parameter defaults to ""
S_add_rating(u, l, i, rating, cm) ==
    StoreCall("add_rating", u, l, i, rating, cm,
              add_rating(after_item_exists(data, u, l, i), u, l, i, rating,
                         IF cm = NoComment THEN << >> ELSE cm),
              "None")

S_get_item_ratings(u, l, i) ==
    StoreCall("get_item_ratings", u, l, i, 0, << >>,
              after_get_item_ratings(data, u, l, i), get_item_ratings(data, u, l, i))

S_get_average_rating(u, l, i) ==
    StoreCall("get_average_rating", u, l, i, 0, << >>,
              after_get_item_ratings(data, u, l, i), get_average_rating(data, u, l, i))

S_delete_list(u, l) ==
    LET res == delete_list(data, u, l)
    IN  StoreCall("delete_list", u, l, << >>, 0, << >>, res[1], res[2])

S_delete_item(u, l, i) ==
    LET res == delete_item(after_item_exists(data, u, l, i), u, l, i)
    IN  StoreCall("delete_item", u, l, i, 0, << >>, res[1], res[2])

S_delete_rating(u, l, i, k) ==
    LET res == delete_rating(after_item_exists(data, u, l, i), u, l, i, k)
    IN  StoreCall("delete_rating", u, l, i, k, << >>, res[1], res[2])

S_clear_ratings(u, l, i) ==
    LET res == clear_ratings(after_item_exists(data, u, l, i), u, l, i)
    IN  StoreCall("clear_ratings", u, l, i, 0, << >>, res[1], res[2])

NextStore ==
    \/ \E t \in ListTargets : S_create_list(t[1], t[2])
    \/ \E t \in ListTargets : S_list_exists(t[1], t[2])
    \/ \E u \in StoreUsers : S_get_all_lists(u)
    \/ \E t \in ItemTargets : S_add_item(t[1], t[2], t[3])
    \/ \E t \in ItemTargets : S_item_exists(t[1], t[2], t[3])
    \/ \E t \in ListTargets : S_get_list_items(t[1], t[2])
    \/ \E t \in ItemTargets, rating \in StoreScores, cm \in CommentArgs :
          S_add_rating(t[1], t[2], t[3], rating, cm)
    \/ \E t \in ItemTargets : S_get_item_ratings(t[1], t[2], t[3])
    \/ \E t \in ItemTargets : S_get_average_rating(t[1], t[2], t[3])
    \/ \E t \in ListTargets : S_delete_list(t[1], t[2])
    \/ \E t \in ItemTargets : S_delete_item(t[1], t[2], t[3])
    \/ \E t \in ItemTargets, k \in StoreIndexes : S_delete_rating(t[1], t[2], t[3], k)
    \/ \E t \in ItemTargets : S_clear_ratings(t[1], t[2], t[3])

InitStore ==
    /\ data \in StoreBuilt
    /\ user_data = [u \in Users |-> << >>]
    /\ script = NoScript
    /\ InitEngine
    /\ hs = "new"

SpecStore == InitStore /\ [][NextStore]_vars

(***************************************************************************)
(* Dispatch: the create-list and add-item conversations of one user in     *)
(* both chats, the two callbacks that test and then write taken in two     *)
(* steps, every other callback in one.                                     *)
(***************************************************************************)
NextDispatch ==
    \/ \E c \in Chats, u \in Users, upd \in Cmds("newlist", {"bare"}) :
          DispatcherFree(running) /\ A_new_list(c, u, upd, "administrator")
    \/ \E c \in Chats, u \in Users, upd \in Cmds("additem", {"bare"}) :
          DispatcherFree(running) /\ A_add_item_start(c, u, upd)
    \/ \E c \in Chats, u \in Users, upd \in U_add_to :
          DispatcherFree(running) /\ A_select_list_for_item(c, u, upd)
    \/ \E c \in Chats, u \in Users, upd \in TextUpdates : D_create_list_begin(c, u, upd)
    \/ \E j \in running : D_create_list_end(j)
    \/ \E c \in Chats, u \in Users, upd \in TextUpdates : D_add_item_to_list_begin(c, u, upd)
    \/ \E j \in running : D_add_item_to_list_end(j)

SpecDispatch == Init /\ [][NextDispatch]_vars

(***************************************************************************)
(* The delete-rating conversation of one user in both chats (the user is   *)
(* an administrator of the group), from a store whose item "x" of list "A" *)
(* holds three ratings that differ, as three rate-item flows leave it.     *)
(* The user presses only buttons that the chat's keyboard shows.           *)
(***************************************************************************)
ThreeRatings == << <<10, << >> >>, <<0, <<"A">> >>, <<10, <<"x">> >> >>

InitDeleteRating ==
    /\ data = StoreOf(<<"A">> :> (<<"x">> :> ThreeRatings))
    /\ user_data = [u \in Users |-> ("selected_list" :> <<"A">>) @@ ("rating_list" :> <<"A">>)
                                     @@ ("rating_item" :> <<"x">>) @@ ("temp_rating" :> 10)]
    /\ script = NoScript
    /\ InitEngine

\* the button is on the keyboard that conversation f of the chat shows
Pressed(c, u, f, upd) ==
    LET k == kb[<<c, u, f>>] IN upd.data \in k.cands \cup k.extra

NextDeleteRating ==
    \/ \E c \in Chats, u \in Users, upd \in Cmds("deleterating", {"bare"}) :
          A_delete_rating_start(c, u, upd, "administrator")
    \/ \E c \in Chats, u \in Users, upd \in U_delete_rating_list :
          Pressed(c, u, "delete_rating", upd) /\ A_select_list_for_delete_rating(c, u, upd)
    \/ \E c \in Chats, u \in Users, upd \in U_delete_rating_item :
          Pressed(c, u, "delete_rating", upd) /\ A_select_item_for_delete_rating(c, u, upd)
    \/ \E c \in Chats, u \in Users, upd \in U_delete_rating :
          Pressed(c, u, "delete_rating", upd) /\ A_confirm_delete_rating(c, u, upd)
    \/ \E c \in Chats, u \in Users, upd \in U_gate_delete_rating :
          Pressed(c, u, "delete_rating", upd) /\ A_execute_delete_rating(c, u, upd)

SpecDeleteRating == InitDeleteRating /\ [][NextDeleteRating]_vars

(***************************************************************************)
(* Stale contexts: the rate-item, add-item, delete-item and delete-list    *)
(* conversations of one user in the private chat, open side by side; the   *)
(* user presses only buttons that the conversation's keyboard shows.       *)
(***************************************************************************)
NextStale ==
    \/ \E u \in Users, upd \in Cmds("rate", {"bare"}) : A_rate_item_start("priv", u, upd)
    \/ \E u \in Users, upd \in U_rate_list :
          Pressed("priv", u, "rate_item", upd) /\ A_select_list_for_rating("priv", u, upd)
    \/ \E u \in Users, upd \in U_rate_item :
          Pressed("priv", u, "rate_item", upd) /\ A_select_item_for_rating("priv", u, upd)
    \/ \E u \in Users, upd \in U_give_rating :
          Pressed("priv", u, "rate_item", upd) /\ A_apply_rating("priv", u, upd)
    \/ \E u \in Users, upd \in TextUpdates : A_add_rating_comment("priv", u, upd)
    \/ \E u \in Users, upd \in Cmds("skip", {"bare"}) : A_skip_comment("priv", u, upd)
    \/ \E u \in Users, upd \in Cmds("additem", {"bare"}) : A_add_item_start("priv", u, upd)
    \/ \E u \in Users, upd \in U_add_to :
          Pressed("priv", u, "add_item", upd) /\ A_select_list_for_item("priv", u, upd)
    \/ \E u \in Users, upd \in TextUpdates : A_add_item_to_list("priv", u, upd)
    \/ \E u \in Users, upd \in Cmds("deleteitem", {"bare"}) :
          A_delete_item_start("priv", u, upd, "member")
    \/ \E u \in Users, upd \in U_delete_item_list :
          Pressed("priv", u, "delete_item", upd) /\ A_select_list_for_delete_item("priv", u, upd)
    \/ \E u \in Users, upd \in U_delete_item :
          Pressed("priv", u, "delete_item", upd) /\ A_confirm_delete_item("priv", u, upd)
    \/ \E u \in Users, upd \in U_gate_delete_item :
          Pressed("priv", u, "delete_item", upd) /\ A_execute_delete_item("priv", u, upd)
    \/ \E u \in Users, upd \in Cmds("deletelist", {"bare"}) :
          A_delete_list_start("priv", u, upd, "member")
    \/ \E u \in Users, upd \in U_delete_list :
          Pressed("priv", u, "delete_list", upd) /\ A_confirm_delete_list("priv", u, upd)
    \/ \E u \in Users, upd \in U_gate_delete_list :
          Pressed("priv", u, "delete_list", upd) /\ A_execute_delete_list("priv", u, upd)

SpecStale == Init /\ [][NextStale]_vars

(***************************************************************************)
(* Names: the add-item, rate-item and delete-list conversations of one     *)
(* user in the private chat, from a store that holds one list with one     *)
(* item, their names drawn from names that may contain the text of a       *)
(* callback prefix.  The user presses the buttons of the keyboard shown.   *)
(***************************************************************************)
NameChunks == {<<"x">>, P_add_to, P_rate_list, P_rate_item, P_delete_list}

\* the names of one or two chunks
Names == NameChunks \cup {a \o b : a \in NameChunks, b \in NameChunks}

InitNames ==
    /\ \E l \in Names, i \in NameChunks : data = StoreOf(l :> (i :> << >>))
    /\ user_data = [u \in Users |-> << >>]
    /\ script = NoScript
    /\ InitEngine

\* the buttons of the keyboard that conversation f of the chat shows
Shown(c, u, f) == {CallbackUpdate(t) : t \in kb[<<c, u, f>>].cands}

NextNames ==
    \/ \E u \in Users, upd \in Cmds("additem", {"bare"}) : A_add_item_start("priv", u, upd)
    \/ \E u \in Users : \E upd \in Shown("priv", u, "add_item") :
          A_select_list_for_item("priv", u, upd)
    \/ \E u \in Users, upd \in TextUpdates : A_add_item_to_list("priv", u, upd)
    \/ \E u \in Users, upd \in Cmds("rate", {"bare"}) : A_rate_item_start("priv", u, upd)
    \/ \E u \in Users : \E upd \in Shown("priv", u, "rate_item") :
          A_select_list_for_rating("priv", u, upd)
    \/ \E u \in Users : \E upd \in Shown("priv", u, "rate_item") :
          A_select_item_for_rating("priv", u, upd)
    \/ \E u \in Users, upd \in Cmds("deletelist", {"bare"}) :
          A_delete_list_start("priv", u, upd, "member")
    \/ \E u \in Users : \E upd \in Shown("priv", u, "delete_list") :
          A_confirm_delete_list("priv", u, upd)

SpecNames == InitNames /\ [][NextNames]_vars

(***************************************************************************)
(* Two users: u1 and u2, both administrators of the group chat, run the    *)
(* delete-list and rate-item conversations there.  Every member of the     *)
(* group sees every keyboard the bot posts in it, so each user presses the *)
(* buttons of either user's keyboard.                                      *)
(***************************************************************************)
UserStores == {EmptyDict,
               <<"A">> :> (<<"x">> :> << <<10, << >> >> >>),
               (<<"A">> :> (<<"x">> :> << >>)) @@ (<<"x">> :> EmptyDict)}

InitIsolation ==
    /\ hs \in {"new", "es"}
    /\ data \in [StoreUsers -> UserStores]
    /\ user_data = [u \in StoreUsers |-> << >>]
    /\ conv = [k \in Chats \X StoreUsers \X Flows |-> END]
    /\ kb = [k \in Chats \X StoreUsers \X Flows |-> NoKb]
    /\ last = [chat |-> "", user |-> "", upd |-> NoUpdate, flow |-> "", handler |-> "",
               member |-> "n/a", admin |-> "n/a", st |-> END, msg |-> ""]
    /\ starts = 0
    /\ script = NoScript
    /\ call = NoCall
    /\ running = {}

\* the buttons of the keyboards that the conversations f of the chat show
GroupShown(c, f) == UNION {Shown(c, w, f) : w \in StoreUsers}

NextIsolation ==
    \/ \E u \in StoreUsers, upd \in Cmds("deletelist", {"bare"}) :
          A_delete_list_start("grp", u, upd, "administrator")
    \/ \E u \in StoreUsers : \E upd \in GroupShown("grp", "delete_list") :
          A_confirm_delete_list("grp", u, upd)
    \/ \E u \in StoreUsers, upd \in U_gate_delete_list : A_execute_delete_list("grp", u, upd)
    \/ \E u \in StoreUsers, upd \in Cmds("rate", {"bare"}) : A_rate_item_start("grp", u, upd)
    \/ \E u \in StoreUsers : \E upd \in GroupShown("grp", "rate_item") :
          A_select_list_for_rating("grp", u, upd)
    \/ \E u \in StoreUsers : \E upd \in GroupShown("grp", "rate_item") :
          A_select_item_for_rating("grp", u, upd)
    \/ \E u \in StoreUsers, upd \in U_give_rating : A_apply_rating("grp", u, upd)
    \/ \E u \in StoreUsers, upd \in Cmds("skip", {"bare"}) : A_skip_comment("grp", u, upd)

SpecIsolation == InitIsolation /\ [][NextIsolation]_vars

(***************************************************************************)
(* Contexts: every conversation that writes user_data, open side by side   *)
(* for one user in the private chat: those of SpecStale and the            *)
(* delete-rating and clear-ratings conversations.                          *)
(***************************************************************************)
NextContext ==
    \/ NextStale
    \/ \E u \in Users, upd \in Cmds("deleterating", {"bare"}) :
          A_delete_rating_start("priv", u, upd, "member")
    \/ \E u \in Users, upd \in U_delete_rating_list :
          Pressed("priv", u, "delete_rating", upd)
          /\ A_select_list_for_delete_rating("priv", u, upd)
    \/ \E u \in Users, upd \in U_delete_rating_item :
          Pressed("priv", u, "delete_rating", upd)
          /\ A_select_item_for_delete_rating("priv", u, upd)
    \/ \E u \in Users, upd \in U_delete_rating :
          Pressed("priv", u, "delete_rating", upd) /\ A_confirm_delete_rating("priv", u, upd)
    \/ \E u \in Users, upd \in U_gate_delete_rating :
          Pressed("priv", u, "delete_rating", upd) /\ A_execute_delete_rating("priv", u, upd)
    \/ \E u \in Users, upd \in Cmds("clearratings", {"bare"}) :
          A_clear_ratings_start("priv", u, upd, "member")
    \/ \E u \in Users, upd \in U_clear_ratings_list :
          Pressed("priv", u, "clear_ratings", upd)
          /\ A_select_list_for_clear_ratings("priv", u, upd)
    \/ \E u \in Users, upd \in U_clear_ratings_item :
          Pressed("priv", u, "clear_ratings", upd) /\ A_confirm_clear_ratings("priv", u, upd)
    \/ \E u \in Users, upd \in U_gate_clear_ratings :
          Pressed("priv", u, "clear_ratings", upd) /\ A_execute_clear_ratings("priv", u, upd)

SpecContext == Init /\ [][NextContext]_vars

(***************************************************************************)
(* Progress: the delete-list and rate-item conversations of one user in    *)
(* the private chat, each update taken in two steps (the dispatcher hands  *)
(* it to the handler that accepts it; the callback runs and returns), so   *)
(* that an update whose callback changes nothing is still a step.  The     *)
(* user sends only updates that some handler accepts, and presses only     *)
(* buttons of the keyboard shown; fairness: the user keeps sending such    *)
(* updates and the dispatcher keeps handling them.                         *)
(***************************************************************************)
\* the callback that handler h of a handler set runs, for the handlers of the
\* delete-list and rate-item conversations
CallbackIn(set, h, d, ud, u, upd) ==
    CASE h = "delete_list_start" -> delete_list_start(d, ud, u, upd)
      [] h = "confirm_delete_list" -> confirm_delete_list(d, ud, u, upd)
      [] h = "execute_delete_list" ->
            IF set = "new" THEN execute_delete_list_new(d, ud, u, upd)
            ELSE execute_delete_list_es(d, ud, u, upd)
      [] h = "rate_item_start" -> rate_item_start(d, ud, u, upd)
      [] h = "select_list_for_rating" -> select_list_for_rating(d, ud, u, upd)
      [] h = "select_item_for_rating" -> select_item_for_rating(d, ud, u, upd)
      [] h = "apply_rating" -> apply_rating(d, ud, u, upd)
      [] h = "add_rating_comment" -> add_rating_comment(d, ud, u, upd)
      [] h = "skip_comment" -> skip_comment(d, ud, u, upd)
      [] h = "cancel" -> cancel(d, ud, u, upd)
      [] OTHER -> R(END, ud, d, NoKb, "")

\* the callback of the handler set in use
Callback(h, d, ud, u, upd) == CallbackIn(hs, h, d, ud, u, upd)

\* one list, without items or with one unrated item; no conversation begun
InitLive ==
    /\ data \in {StoreOf(<<"A">> :> << >>), StoreOf(<<"A">> :> (<<"x">> :> << >>))}
    /\ user_data = [u \in Users |-> << >>]
    /\ script = NoScript
    /\ InitEngine

\* no conversation of the user in the chat is under way
Idle(c, u) == \A f \in Flows : conv[<<c, u, f>>] = END

\* the dispatcher takes the update and finds the conversation that accepts it;
\* the user begins a conversation only when none is under way
L_begin(c, u, upd) ==
    LET r == Route(hs, conv, c, u, upd)
    IN  /\ DispatcherFree(running)
        /\ r[1] # ""
        /\ r[2] \in EntryCallbacks => Idle(c, u) /\ starts < MaxStarts
        /\ running' = running \cup {Job(c, u, upd, r[1], r[2], << >>, FALSE)}
        /\ UNCHANGED <<hs, data, conv, user_data, kb, last, starts, script, call>>

\* the callback runs and returns (or raises)
L_end(j) ==
    /\ Handled(j.chat, j.user, j.upd, j.flow, j.handler, "n/a",
               Callback(j.handler, data, user_data[j.user], j.user, j.upd))
    /\ running' = running \ {j}

\* every button of the keyboard that conversation f of the chat shows
Offered(c, u, f) ==
    {CallbackUpdate(t) : t \in kb[<<c, u, f>>].cands \cup kb[<<c, u, f>>].extra}

\* the user sends an update that a conversation accepts: a command, a button
\* of the keyboard shown, a text
UserSends ==
    \/ \E u \in Users, upd \in Cmds("deletelist", {"bare"}) \cup Cmds("rate", {"bare"}) :
          L_begin("priv", u, upd)
    \/ \E u \in Users : \E upd \in Offered("priv", u, "delete_list") : L_begin("priv", u, upd)
    \/ \E u \in Users : \E upd \in Offered("priv", u, "rate_item") : L_begin("priv", u, upd)
    \/ \E u \in Users, upd \in TextUpdates \cup Cmds("skip", {"bare"}) : L_begin("priv", u, upd)

NextLive ==
    \/ UserSends
    \/ \E j \in running : L_end(j)

\* the updates the user may send next, and whether one of them is accepted
Sendable(c, u) ==
    Cmds("deletelist", {"bare"}) \cup Cmds("rate", {"bare"}) \cup Cmds("skip", {"bare"})
        \cup TextUpdates \cup Offered(c, u, "delete_list") \cup Offered(c, u, "rate_item")

Takes(c, u, upd) ==
    LET r == Route(hs, conv, c, u, upd)
    IN  r[1] # "" /\ (r[2] \in EntryCallbacks => Idle(c, u) /\ starts < MaxStarts)

\* a conversation is under way, or one may still be begun
Busy == \E u \in Users : ~Idle("priv", u) \/ starts < MaxStarts

\* whenever the dispatcher is free and Busy holds, there is an update to send
\* that some conversation accepts: UserSends is enabled exactly then
SendsEnabled ==
    DispatcherFree(running) =>
        (Busy <=> \E u \in Users : \E upd \in Sendable("priv", u) : Takes("priv", u, upd))

\* a UserSends step, and the L_end step, by what they do to running: the one
\* is the only step that fills it, the other the only step that empties it;
\* L_end is enabled whenever a callback is under way (the route of its update
\* cannot change while it runs)
\* (the first disjunct is an instance of the second: one value to begin with)
Sends ==
    /\ DispatcherFree(running)
    /\ Busy
    /\ \/ running' = {Job("", "", NoUpdate, "", "", << >>, FALSE)}
       \/ running' # {}

Returns == running # {} /\ running' = {}

\* the user keeps sending accepted updates while there is one to send; the
\* dispatcher thread finishes every callback it began
SpecLive == InitLive /\ [][NextLive]_vars /\ WF_running(Sends) /\ WF_running(Returns)

(***************************************************************************)
(* The scenario of section 8: in a private chat, from an empty store, the  *)
(* user creates list L, adds item I to it, and rates it s, then skips the  *)
(* comment or types one.  The script holds the updates in order; each is   *)
(* dispatched like any other update.                                       *)
(***************************************************************************)
\* the scores of the keyboard of select_item_for_rating
Scores == 0..10

\* "skip" stands for the command /skip, a text for the comment typed
CommentChoices == {<<"/skip">>} \cup Texts

Scenario(l, i, s, cm) ==
    << CmdUpdate("newlist", "bare"), TextUpdate(l),
       CmdUpdate("additem", "bare"), CallbackUpdate(P_add_to \o l), TextUpdate(i),
       CmdUpdate("rate", "bare"), CallbackUpdate(P_rate_list \o l),
       CallbackUpdate(P_rate_item \o i), CallbackUpdate(P_give_rating \o str(s)),
       IF cm = <<"/skip">> THEN CmdUpdate("skip", "bare") ELSE TextUpdate(cm) >>

InitScenario ==
    /\ data = StoreOf(<< >>)
    /\ user_data = [u \in Users |-> << >>]
    /\ \E l \in Texts, i \in Texts, s \in Scores, cm \in CommentChoices :
          script = [comment |-> IF cm = <<"/skip">> THEN << >> ELSE cm,
                    todo |-> Scenario(l, i, s, cm), list |-> l, item |-> i, score |-> s]
    /\ InitEngine

\* the update the scripted user sends next
ScriptHead == IF script.todo = << >> THEN {} ELSE {Head(script.todo)}

NextScenario ==
    \/ \E u \in Users, upd \in ScriptHead : A_new_list("priv", u, upd, "n/a")
    \/ \E u \in Users, upd \in ScriptHead : A_create_list("priv", u, upd)
    \/ \E u \in Users, upd \in ScriptHead : A_add_item_start("priv", u, upd)
    \/ \E u \in Users, upd \in ScriptHead : A_select_list_for_item("priv", u, upd)
    \/ \E u \in Users, upd \in ScriptHead : A_add_item_to_list("priv", u, upd)
    \/ \E u \in Users, upd \in ScriptHead : A_rate_item_start("priv", u, upd)
    \/ \E u \in Users, upd \in ScriptHead : A_select_list_for_rating("priv", u, upd)
    \/ \E u \in Users, upd \in ScriptHead : A_select_item_for_rating("priv", u, upd)
    \/ \E u \in Users, upd \in ScriptHead : A_apply_rating("priv", u, upd)
    \/ \E u \in Users, upd \in ScriptHead : A_add_rating_comment("priv", u, upd)
    \/ \E u \in Users, upd \in ScriptHead : A_skip_comment("priv", u, upd)

SpecScenario == InitScenario /\ [][NextScenario]_vars

(***************************************************************************)
(* The access policy (section 3 of the specification).                     *)
(***************************************************************************)
\* the decorated entry callbacks of the delete flows and of clear-ratings
AdminEntries == {"delete_list_start", "delete_item_start", "delete_rating_start",
                 "clear_ratings_start"}

\* C1: an admin-only entry command (deletelist, deleteitem, deleterating,
\* clearratings), in every text form the command handler routes, sent by a user
\* for whom is_admin is false gets the denial reply, leaves the flow terminal and
\* the store unchanged; sent in a private chat it is not denied and, the user
\* having a list, starts the flow.
C1_AdminEntryDenied ==
    [][last'.handler \in AdminEntries =>
          /\ last'.admin = "no" =>
                /\ last'.msg = "denied"
                /\ conv'[<<last'.chat, last'.user, last'.flow>>] = END
                /\ data' = data
          /\ ChatType(last'.chat) = "private" =>
                /\ last'.msg # "denied"
                /\ get_all_lists(data, last'.user) # {} =>
                      conv'[<<last'.chat, last'.user, last'.flow>>] # END]_vars

\* C2: in both handler sets a newlist command of a user for whom is_admin is
\* false never puts the create-list flow into the await-name state.
C2_NewListAdminOnly ==
    [][last'.handler = "new_list" /\ last'.admin = "no" =>
          conv'[<<last'.chat, last'.user, "create_list">>] # CREATE_LIST]_vars

\* C3: is_admin is fail-closed: true in a private chat whatever the membership
\* lookup would give, elsewhere true exactly for status creator or
\* administrator, and false, without raising, when the lookup fails; a decorated
\* entry command in its exact spelling is denied exactly when it is false.
C3_IsAdminFailClosed ==
    last.member # "n/a" =>
        /\ ChatType(last.chat) = "private" => last.admin = "yes"
        /\ ChatType(last.chat) # "private" =>
              (last.admin = "yes" <=> last.member \in {"creator", "administrator"})
        /\ last.member = "error" => last.st # RAISE
        /\ last.handler \in AdminEntries /\ last.upd.form \in {"bare", "args"} =>
              (last.msg = "denied" <=>
                  ChatType(last.chat) # "private"
                  /\ last.member \notin {"creator", "administrator"})

\* the membership lookup failed in a group and the entry command was denied
C3_Witness ==
    /\ last.handler = "delete_list_start"
    /\ ChatType(last.chat) = "group"
    /\ last.member = "error"
    /\ last.admin = "no"
    /\ last.msg = "denied"

(***************************************************************************)
(* The flows (section 4 of the specification).                             *)
(***************************************************************************)
\* the flows that end in a destructive store call
DeleteFlowNames == {"delete_list", "delete_item", "delete_rating", "clear_ratings"}

\* the callback_data of the confirm button of each of them
ConfirmToken(f) ==
    CASE f = "delete_list" -> T_confirm_delete_list
      [] f = "delete_item" -> T_confirm_delete_item
      [] f = "delete_rating" -> T_confirm_delete_rating
      [] f = "clear_ratings" -> T_confirm_clear_ratings

\* the callback_data of the cancel buttons
CancelTokens == {T_cancel_delete, T_cancel_clear}

\* the replies that follow a call of delete_list, delete_item, delete_rating or
\* clear_ratings
DestructiveReplies == {"deleted", "deleted_all", "cleared", "failed"}

\* the user_data keys each flow writes
FlowKeys(f) ==
    CASE f = "add_item" -> {"selected_list"}
      [] f = "rate_item" -> {"rating_list", "rating_item", "temp_rating"}
      [] f = "delete_list" -> {"delete_list_name"}
      [] f = "delete_item" -> {"delete_item_list", "delete_item_name"}
      [] f = "delete_rating" -> {"delete_rating_list", "delete_rating_item",
                                 "delete_rating_index", "delete_all_ratings"}
      [] f = "clear_ratings" -> {"clear_ratings_list", "clear_ratings_item"}
      [] OTHER -> {}

\* C4: in the delete flows and in clear-ratings a destructive store call happens
\* only when the flow's latest reply was its confirm gate and the update is the
\* flow's confirm token; before the gate no accepted update changes the store.
C4_DestroyOnlyAtGate ==
    [][last'.flow \in DeleteFlowNames =>
          /\ last'.msg \in DestructiveReplies =>
                /\ kb[<<last'.chat, last'.user, last'.flow>>].kind = "gate"
                /\ last'.upd.data = ConfirmToken(last'.flow)
          /\ kb[<<last'.chat, last'.user, last'.flow>>].kind # "gate" => data' = data]_vars

\* C5: pressing the cancel button of a confirm gate moves the flow that shows
\* that gate to the terminal state and leaves the store unchanged.
C5_CancelButtonEnds ==
    [][last'.upd.kind = "callback" /\ last'.upd.data \in CancelTokens =>
          /\ data' = data
          /\ \A f \in DeleteFlowNames :
                (/\ kb[<<last'.chat, last'.user, f>>].kind = "gate"
                 /\ last'.upd.data \in kb[<<last'.chat, last'.user, f>>].extra)
                => conv'[<<last'.chat, last'.user, f>>] = END]_vars

\* C6: the cancel command moves every flow of the user in that chat that is in
\* a non-terminal state to the terminal state and never changes the store.
C6_CancelCommandEnds ==
    [][last'.upd.kind = "command" /\ last'.upd.cmd = "cancel" =>
          /\ data' = data
          /\ \A f \in Flows : conv'[<<last'.chat, last'.user, f>>] = END]_vars

\* C7: when a flow reaches the terminal state (and the user has no other
\* instance of it open in another chat) none of the user_data keys the flow
\* writes is left.
C7_ContextDestroyed ==
    [][\A c \in Chats, u \in Users, f \in Flows :
          (/\ conv[<<c, u, f>>] # END
           /\ \A c2 \in Chats : conv'[<<c2, u, f>>] = END)
          => DOMAIN user_data'[u] \cap FlowKeys(f) = {}]_vars

\* the entry callbacks of the flows that need a list
ListEntries == EntryCallbacks \ {"new_list"}

\* C9: the entry handler of every flow that needs a list, reached by a user
\* with zero lists, returns the terminal state: the flow is not active, shows no
\* keyboard, user_data and the store are unchanged.
C9_NoListsShortCircuit ==
    [][last'.handler \in ListEntries /\ get_all_lists(data, last'.user) = {} =>
          /\ conv'[<<last'.chat, last'.user, last'.flow>>] = END
          /\ kb'[<<last'.chat, last'.user, last'.flow>>] = NoKb
          /\ user_data' = user_data
          /\ data' = data]_vars

\* rate-item was started with no list and ended at once
C9_Witness ==
    /\ last.handler = "rate_item_start"
    /\ last.msg = "no_lists"
    /\ get_all_lists(data, last.user) = {}
    /\ conv[<<last.chat, last.user, "rate_item">>] = END
    /\ user_data[last.user] = << >>

\* C10: no reply to a command, a text or a button the flow's latest keyboard
\* offered presents a selection (of lists, items or ratings) with no candidate.
C10_NeverOffersNothing ==
    [][(/\ last'.flow # ""
        /\ last'.upd.kind = "callback" =>
              last'.upd.data \in kb[<<last'.chat, last'.user, last'.flow>>].cands
                                 \cup kb[<<last'.chat, last'.user, last'.flow>>].extra)
       => (kb'[<<last'.chat, last'.user, last'.flow>>].kind \in {"lists", "items", "ratings"}
           => kb'[<<last'.chat, last'.user, last'.flow>>].cands # {})]_vars

(***************************************************************************)
(* The scenario of section 8.                                              *)
(***************************************************************************)
\* C8: for every score s in 0..10, from an empty store, create-list L, add-item
\* I to L, then rate-item choosing L, I, s and /skip leaves the ratings of I as
\* [(s, "")] with average s; a typed comment c instead of /skip leaves [(s, c)].
\* Every update of the scenario is accepted by a handler, so the scenario runs
\* to its end.
C8_RateScenario ==
    /\ script.todo # << >> =>
          \E u \in Users : Route(hs, conv, "priv", u, Head(script.todo))[2] # ""
    /\ script.todo = << >> =>
          /\ get_item_ratings(data, last.user, script.list, script.item)
                = << <<script.score, script.comment>> >>
          /\ get_average_rating(data, last.user, script.list, script.item)
                = <<script.score, 1>>
          /\ get_all_lists(data, last.user) = {script.list}
          /\ DOMAIN get_list_items(data, last.user, script.list) = {script.item}

\* the scenario ended with score 0 and /skip: the rating (0, "") is stored
C8_Witness ==
    /\ script.todo = << >>
    /\ script.score = 0
    /\ last.handler = "skip_comment"
    /\ last.msg = "rated"
    /\ get_item_ratings(data, last.user, script.list, script.item) = << <<0, << >> >> >>

(***************************************************************************)
(* Flow contexts and intents out of turn (section 4 of the specification). *)
(***************************************************************************)
\* C11: when a flow's entry command arrives while that flow is in a
\* non-terminal state for the sender, a new instance starts: the entry
\* callback of the flow handles the command and the flow takes the state
\* that callback returns.
C11_EntryRestarts ==
    [][\A f \in Flows :
          (/\ last'.upd.kind = "command"
           /\ last'.upd.cmd = EntryPoint(f)[1]
           /\ conv[<<last'.chat, last'.user, f>>] # END)
          => /\ last'.flow = f
             /\ last'.handler = EntryPoint(f)[2]
             /\ conv'[<<last'.chat, last'.user, f>>] = last'.st]_vars

\* C12: an update that the current state of an open flow does not accept
\* and that is not the cancel command ends that flow with a reply; the flow
\* never stays in its state.
C12_UnacceptedEnds ==
    [][\A f \in Flows :
          (/\ conv[<<last'.chat, last'.user, f>>] # END
           /\ FirstMatch(StateHandlers(hs, f, conv[<<last'.chat, last'.user, f>>]),
                         last'.upd) = ""
           /\ ~Match("/cancel", last'.upd))
          => /\ conv'[<<last'.chat, last'.user, f>>] = END
             /\ last'.msg # ""]_vars

(***************************************************************************)
(* The ratings of the store (section 2 of the specification).              *)
(***************************************************************************)
\* C13: every rating the store holds has an integer score from 0 to 10,
\* whatever the handlers were sent, a give_rating_ token with a numeral
\* off the keyboard included.
C13_ScoresInRange ==
    \A u \in DOMAIN data : \A l \in DOMAIN data[u] : \A i \in DOMAIN data[u][l] :
        \A k \in 1..Len(data[u][l][i]) :
            data[u][l][i][k][1] \in Int /\ 0 <= data[u][l][i][k][1] /\ data[u][l][i][k][1] <= 10

\* the rate-item flow was run to its last step with the score 11
C13_Witness ==
    \E u \in Users :
        /\ last.user = u
        /\ last.handler \in {"add_rating_comment", "skip_comment"}
        /\ last.msg = "rated"
        /\ Get(user_data[u], "temp_rating") = 11

(***************************************************************************)
(* The DataStore methods (section 2 of the specification), each stated of  *)
(* one call: data is the store before it, data' the store after it, and    *)
(* call' the method, its arguments and what it returned.                   *)
(***************************************************************************)
\* the call just made is a call of method op
Called(op) == call' # call /\ call'.op = op

\* the ratings of the item the call names, before and after it
RatingsBefore == get_item_ratings(data, call'.user, call'.list, call'.item)
RatingsAfter == get_item_ratings(data', call'.user, call'.list, call'.item)

\* C14: add_rating with a score below 0 or above 10, or for an item that is
\* not in the list, returns normally and leaves the whole store as it was:
\* no rating is added, and neither the list nor the item comes to exist.
C14_RejectedAddRating ==
    [][(/\ Called("add_rating")
        /\ \/ call'.arg < 0
           \/ call'.arg > 10
           \/ ~item_exists(data, call'.user, call'.list, call'.item))
       => /\ data' = data
          /\ Len(RatingsAfter) = Len(RatingsBefore)
          /\ call'.ret = "None"]_vars

\* add_rating was called with the score 11 for an item that exists
C14_Witness ==
    /\ call.op = "add_rating"
    /\ call.arg = 11
    /\ item_exists(data, call.user, call.list, call.item)

\* C15: add_rating for an existing item with a score from 0 to 10 makes the
\* item's ratings one longer: every earlier rating keeps its index and
\* value, and the last one is (score, comment), the comment being "" when
\* the caller passed none.
C15_AddRatingAppends ==
    [][(/\ Called("add_rating")
        /\ 0 <= call'.arg /\ call'.arg <= 10
        /\ item_exists(data, call'.user, call'.list, call'.item))
       => /\ Len(RatingsAfter) = Len(RatingsBefore) + 1
          /\ \A k \in 1..Len(RatingsBefore) : RatingsAfter[k] = RatingsBefore[k]
          /\ RatingsAfter[Len(RatingsAfter)] =
                <<call'.arg, IF call'.comment = NoComment THEN << >> ELSE call'.comment>>]_vars

\* a rating without a comment was added behind two others
C15_Witness ==
    /\ call.op = "add_rating"
    /\ call.comment = NoComment
    /\ LET rs == get_item_ratings(data, call.user, call.list, call.item)
       IN  Len(rs) >= 3 /\ rs[Len(rs)] = <<call.arg, << >> >>

\* C16: delete_rating with an index k from 0 to len - 1 returns true and
\* removes the rating at k: those before k stay, those after k move down by
\* one.  With k < 0 or k >= len, or for an item that is not there, it returns
\* false and leaves the whole store as it was.
C16_DeleteRating ==
    [][Called("delete_rating")
       => IF /\ item_exists(data, call'.user, call'.list, call'.item)
             /\ 0 <= call'.arg /\ call'.arg < Len(RatingsBefore)
          THEN /\ call'.ret = TRUE
               /\ Len(RatingsAfter) = Len(RatingsBefore) - 1
               /\ \A j \in 0..(Len(RatingsBefore) - 1) :
                     /\ j < call'.arg => RatingsAfter[j + 1] = RatingsBefore[j + 1]
                     /\ j > call'.arg => RatingsAfter[j] = RatingsBefore[j + 1]
          ELSE call'.ret = FALSE /\ data' = data]_vars

\* the middle one of three ratings was deleted
C16_Witness ==
    /\ call.op = "delete_rating"
    /\ call.arg = 1
    /\ call.ret = TRUE
    /\ Len(get_item_ratings(data, call.user, call.list, call.item)) = 2

\* C17: create_list of a name the user has leaves the whole store as it
\* was; of a name the user has not, it adds that one list, empty, and
\* changes nothing else: every other list, a name that differs in letter
\* case only included, keeps its items and ratings.
C17_CreateList ==
    [][Called("create_list")
       => IF list_exists(data, call'.user, call'.list)
          THEN data' = data /\ call'.list \in get_all_lists(data', call'.user)
          ELSE /\ get_all_lists(data', call'.user)
                    = get_all_lists(data, call'.user) \cup {call'.list}
               /\ get_list_items(data', call'.user, call'.list) = EmptyDict
               /\ \A l \in get_all_lists(data, call'.user) :
                     data'[call'.user][l] = data[call'.user][l]
               /\ \A u \in StoreUsers \ {call'.user} : data'[u] = data[u]]_vars

\* create_list was called for a list that holds a rated item
C17_Witness ==
    /\ call.op = "create_list"
    /\ get_item_ratings(data, call.user, call.list, <<"x">>) # << >>

\* C18: delete_list of a list the user has returns true and removes the
\* name; none of its items exists any more and none has ratings; and
\* create_list of the same name right after it gives a list with no items.
C18_DeleteList ==
    [][/\ (Called("delete_list") /\ list_exists(data, call'.user, call'.list))
          => /\ call'.ret = TRUE
             /\ call'.list \notin get_all_lists(data', call'.user)
             /\ \A i \in DOMAIN data[call'.user][call'.list] :
                   /\ ~item_exists(data', call'.user, call'.list, i)
                   /\ get_item_ratings(data', call'.user, call'.list, i) = << >>
       /\ (/\ Called("create_list")
           /\ call.op = "delete_list" /\ call.ret = TRUE
           /\ call.user = call'.user /\ call.list = call'.list)
          => /\ list_exists(data', call'.user, call'.list)
             /\ get_list_items(data', call'.user, call'.list) = EmptyDict]_vars

\* list A of the first user, deleted with its two items, was created again
C18_Witness ==
    /\ call.op = "create_list" /\ call.user = "u1" /\ call.list = <<"A">>
    /\ call.n = 2
    /\ get_list_items(data, "u1", <<"A">>) = EmptyDict
    /\ list_exists(data, "u1", <<"a">>)
    /\ item_exists(data, "u2", <<"A">>, <<"x">>)

\* C19: delete_item of an existing item removes that item only: its list
\* stays, also when it is left empty, with every other item as it was, and
\* so does every other list of the user and every other user's data;
\* delete_list of an existing list leaves the user's other lists as they were.
C19_DeleteFrame ==
    [][/\ (Called("delete_item") /\ item_exists(data, call'.user, call'.list, call'.item))
          => /\ list_exists(data', call'.user, call'.list)
             /\ DOMAIN data'[call'.user][call'.list]
                  = DOMAIN data[call'.user][call'.list] \ {call'.item}
             /\ \A i \in DOMAIN data'[call'.user][call'.list] :
                   data'[call'.user][call'.list][i] = data[call'.user][call'.list][i]
             /\ get_all_lists(data', call'.user) = get_all_lists(data, call'.user)
             /\ \A l \in get_all_lists(data, call'.user) \ {call'.list} :
                   data'[call'.user][l] = data[call'.user][l]
             /\ \A u \in StoreUsers \ {call'.user} : data'[u] = data[u]
       /\ (Called("delete_list") /\ list_exists(data, call'.user, call'.list))
          => /\ get_all_lists(data', call'.user)
                  = get_all_lists(data, call'.user) \ {call'.list}
             /\ \A l \in get_all_lists(data', call'.user) :
                   data'[call'.user][l] = data[call'.user][l]]_vars

\* delete_item took the last item of a list, and the list is still there
C19_Witness ==
    /\ call.op = "delete_item"
    /\ call.ret = TRUE
    /\ list_exists(data, call.user, call.list)
    /\ get_list_items(data, call.user, call.list) = EmptyDict

\* the methods that only read
ReadOps == {"list_exists", "item_exists", "get_all_lists", "get_list_items",
            "get_item_ratings", "get_average_rating"}

\* C20: a reading method, and an add_rating that is rejected, called with
\* names that exist or not, leaves every user's set of lists and every
\* list's set of items as they were.
C20_ReadsCreateNothing ==
    [][(/\ call' # call
        /\ \/ call'.op \in ReadOps
           \/ /\ call'.op = "add_rating"
              /\ \/ call'.arg < 0
                 \/ call'.arg > 10
                 \/ ~item_exists(data, call'.user, call'.list, call'.item))
       => \A u \in StoreUsers :
             /\ get_all_lists(data', u) = get_all_lists(data, u)
             /\ \A l \in get_all_lists(data, u) : DOMAIN data'[u][l] = DOMAIN data[u][l]]_vars

\* the ratings of an item were read in a list the user does not have
C20_Witness ==
    /\ call.op \in {"get_item_ratings", "get_average_rating"}
    /\ ~list_exists(data, call.user, call.list)

\* the methods that delete
DeleteOps == {"delete_list", "delete_item", "delete_rating", "clear_ratings"}

\* C21: delete_list of a list the user has not, and delete_item,
\* delete_rating and clear_ratings of an item that is not in the list,
\* return false and leave the whole store as it was.
C21_DeleteAbsent ==
    [][(/\ call' # call
        /\ call'.op \in DeleteOps
        /\ IF call'.op = "delete_list"
           THEN ~list_exists(data, call'.user, call'.list)
           ELSE ~item_exists(data, call'.user, call'.list, call'.item))
       => call'.ret = FALSE /\ data' = data]_vars

\* a rating was to be deleted in a list the user has not
C21_Witness ==
    /\ call.op = "delete_rating"
    /\ call.arg = 0
    /\ ~list_exists(data, call.user, call.list)

\* C22: clear_ratings of an existing item returns true; the item stays,
\* with no ratings and the average 0, and every other item, list and user
\* is as before.  Of an item that is not there it returns false.
C22_ClearRatings ==
    [][Called("clear_ratings")
       => IF item_exists(data, call'.user, call'.list, call'.item)
          THEN /\ call'.ret = TRUE
               /\ item_exists(data', call'.user, call'.list, call'.item)
               /\ RatingsAfter = << >>
               /\ get_average_rating(data', call'.user, call'.list, call'.item)[1] = 0
               /\ data' = [data EXCEPT ![call'.user][call'.list][call'.item] = << >>]
          ELSE call'.ret = FALSE]_vars

\* the ratings of one item were cleared and the other item of the list has its own
C22_Witness ==
    /\ call.op = "clear_ratings"
    /\ call.ret = TRUE
    /\ get_item_ratings(data, call.user, call.list, call.item) = << >>
    /\ \E i \in StoreItems : get_item_ratings(data, call.user, call.list, i) # << >>

\* C23: add_item makes the list when the user has it not, and puts the item
\* in it with no ratings; an item that is there keeps its ratings and the
\* store is as before; no other item, list or user changes.
C23_AddItem ==
    [][Called("add_item")
       => IF item_exists(data, call'.user, call'.list, call'.item)
          THEN data' = data
          ELSE /\ get_all_lists(data', call'.user)
                    = get_all_lists(data, call'.user) \cup {call'.list}
               /\ DOMAIN data'[call'.user][call'.list]
                    = DOMAIN get_list_items(data, call'.user, call'.list) \cup {call'.item}
               /\ RatingsAfter = << >>
               /\ \A i \in DOMAIN get_list_items(data, call'.user, call'.list) :
                     data'[call'.user][call'.list][i] = data[call'.user][call'.list][i]
               /\ \A l \in get_all_lists(data, call'.user) \ {call'.list} :
                     data'[call'.user][l] = data[call'.user][l]
               /\ \A u \in StoreUsers \ {call'.user} : data'[u] = data[u]]_vars

\* add_item in an empty store: the list came with the item
C23_Witness ==
    /\ call.op = "add_item"
    /\ call.n = 1
    /\ get_all_lists(data, call.user) = {call.list}
    /\ DOMAIN data[call.user][call.list] = {call.item}
    /\ \A u \in StoreUsers \ {call.user} : get_all_lists(data, u) = {}

\* the scores of a sequence of ratings
ScoresOf(rs) == {rs[k][1] : k \in 1..Len(rs)}

TestNow(j) ==
    IF j.handler = "create_list" THEN list_exists(data, j.user, j.list)
    ELSE /\ j.list \notin {None, << >>}
         /\ item_exists(data, j.user, j.list, j.upd.data)

ContextRatings(u) ==
    get_item_ratings(data, u, Get(user_data[u], "delete_rating_list"),
                     Get(user_data[u], "delete_rating_item"))

\* this step confirms, in chat c, the deletion user u asked for in the step before
\* by pressing a delete_rating_<k> button of the same chat
ConfirmsSingle(c, u) ==
    /\ last.handler = "confirm_delete_rating"
    /\ last.chat = c /\ last.user = u
    /\ last.st = CONFIRM_DELETE
    /\ last.upd.data # T_delete_all_ratings
    /\ last'.handler = "execute_delete_rating"
    /\ last'.chat = c /\ last'.user = u
    /\ last'.upd.data = T_confirm_delete_rating

\* C26: in the handlers of bot_handlers_new.py, confirming the deletion of
\* the single rating selected at index k removes exactly the rating at k
\* and leaves the item's other ratings in place, whatever the user did in
\* earlier delete-rating flows.
C26_SingleDeleteRemovesOne ==
    [][\A c \in Chats, u \in Users :
          (hs = "new" /\ ConfirmsSingle(c, u))
              => LET k == int(replace(last.upd.data, P_delete_rating))
                     l == Get(user_data[u], "delete_rating_list")
                     i == Get(user_data[u], "delete_rating_item")
                 IN  /\ last'.msg = "deleted"
                     /\ data' = [data EXCEPT ![u] =
                                    Put(data[u], l, Put(data[u][l], i,
                                                        RemoveAt(ContextRatings(u), k)))]]_vars

\* C27: the rating that the confirmation of a delete-rating flow removes is
\* the rating that was listed for the button the user chose (the one the
\* confirmation prompt of the chat names), whatever the user's other flows,
\* a delete-rating flow in the other chat among them, did in between.
C27_RemovesListed ==
    [][\A c \in Chats, u \in Users :
          LET gate == kb[<<c, u, "delete_rating">>]
              before == ContextRatings(u)
              after == ContextRatings(u)'
          IN  (/\ last'.handler = "execute_delete_rating"
               /\ last'.chat = c /\ last'.user = u
               /\ last'.upd.data = T_confirm_delete_rating
               /\ gate.kind = "gate" /\ gate.cands # {}
               /\ Len(after) = Len(before) - 1)
                  => \E k \in 1..Len(before) :
                        /\ rating_info(before[k]) \in gate.cands
                        /\ after = RemoveAt(before, k - 1)]_vars

\* C28: no handler raises because what its flow context refers to has gone
\* stale: a step taken on an update that the flow awaits (a command, a text,
\* or a button of the flow's current keyboard, which was valid when the
\* keyboard was built) replies and ends or re-prompts, it does not raise.
C28_NoRaiseOnStale ==
    [][(/\ last'.flow # ""
        /\ last'.upd.kind = "callback"
               => LET k == kb[<<last'.chat, last'.user, last'.flow>>]
                  IN  last'.upd.data \in k.cands \cup k.extra)
           => last'.st # RAISE]_vars

(***************************************************************************)
(* The rate-item and add-item conversations against the other flows.       *)
(***************************************************************************)
\* C29: whenever the rate-item flow ends with its success reply, the
\* ratings of the chosen item have grown by exactly one element, the
\* chosen score (one of the keyboard, 0..10) with the typed comment or
\* with "" after /skip, whatever the user's other flows did to the item
\* since it was chosen.
C29_RatedGrowsByOne ==
    [][\A u \in Users :
          (/\ last'.flow = "rate_item" /\ last'.msg = "rated" /\ last'.user = u
           /\ Get(user_data[u], "temp_rating") \in 0..10)
              => LET l == Get(user_data[u], "rating_list")
                     i == Get(user_data[u], "rating_item")
                     comment == IF last'.handler = "skip_comment" THEN << >>
                                ELSE last'.upd.data
                 IN  get_item_ratings(data', u, l, i)
                        = Append(get_item_ratings(data, u, l, i),
                                 <<Get(user_data[u], "temp_rating"), comment>>)]_vars

\* C30: when add_item_to_list calls add_item (it then replies that the
\* item was added) the target list already exists, so the add-item flow
\* never brings a list into existence, not even one that a delete-list
\* flow removed after it was selected.
C30_AddItemNeverCreatesList ==
    [][\A u \in Users :
          (last'.handler = "add_item_to_list" /\ last'.msg = "added" /\ last'.user = u)
              => /\ list_exists(data, u, Get(user_data[u], "selected_list"))
                 /\ get_all_lists(data', u) \subseteq get_all_lists(data, u)]_vars

(***************************************************************************)
(* Choice tokens (section 3 of the specification).                         *)
(***************************************************************************)
\* the handlers that recover a name from a token: <<prefix, user_data key>>
Recovers(h) ==
    CASE h = "select_list_for_item" -> <<P_add_to, "selected_list">>
      [] h = "select_list_for_rating" -> <<P_rate_list, "rating_list">>
      [] h = "select_item_for_rating" -> <<P_rate_item, "rating_item">>
      [] h = "confirm_delete_list" -> <<P_delete_list, "delete_list_name">>
      [] OTHER -> <<None, "">>

\* C31: the name a handler recovers from the token of a button it was
\* shown (prefix + name) is the name the button was built from, also when
\* the name itself contains the text of the prefix.
C31_TokenRoundTrip ==
    [][\A u \in Users :
          (/\ last'.user = u
           /\ Recovers(last'.handler)[2] # ""
           /\ last'.upd.data \in kb[<<last'.chat, u, last'.flow>>].cands)
              => Recovers(last'.handler)[1]
                     \o Get(user_data'[u], Recovers(last'.handler)[2]) = last'.upd.data]_vars

(***************************************************************************)
(* The create-list, add-item and rate-item conversations (section 4).      *)
(***************************************************************************)
\* C32: in the await-name state of create-list, a text that names a list
\* of the user leaves the store unchanged and the flow awaiting the name;
\* any other text creates exactly that list, empty, and ends the flow;
\* no other list changes.
C32_CreateListFlow ==
    [][\A c \in Chats, u \in Users :
          (last'.handler = "create_list" /\ last'.chat = c /\ last'.user = u)
              => LET n == last'.upd.data
                     k == <<c, u, "create_list">>
                 IN  /\ conv[k] = CREATE_LIST
                     /\ IF n \in get_all_lists(data, u)
                        THEN data' = data /\ conv'[k] = CREATE_LIST
                        ELSE /\ data' = [data EXCEPT ![u] = Put(data[u], n, EmptyDict)]
                             /\ conv'[k] = END]_vars

\* the name "x" was typed again after the flow had created list "x"
C32_Witness ==
    /\ last.handler = "create_list"
    /\ last.upd.data = <<"x">>
    /\ last.msg = "duplicate"
    /\ conv[<<last.chat, last.user, "create_list">>] = CREATE_LIST

Before(st) ==
    CASE st = SELECT_LIST -> <<END, "rate_item_start">>
      [] st = SELECTING_ITEM_TO_RATE -> <<SELECT_LIST, "select_list_for_rating">>
      [] st = RATE_ITEM -> <<SELECTING_ITEM_TO_RATE, "select_item_for_rating">>
      [] st = ADD_COMMENT -> <<RATE_ITEM, "apply_rating">>
      [] OTHER -> <<st, "">>

\* C34: the store changes under the rate-item flow only in the step the
\* await-comment state takes (the comment or /skip), which ends the flow,
\* so a flow stores at most one rating; each rate-item conversation enters
\* await-comment only from the score choice, that from the item choice,
\* that from the list choice, that from the entry; and the score choice
\* itself leaves the store unchanged.
C34_RateOrdering ==
    [][\A c \in Chats, u \in Users :
          LET k == <<c, u, "rate_item">>
          IN  /\ (data' # data /\ last'.flow \in {"rate_item", ""})
                    => /\ last'.flow = "rate_item"
                       /\ last'.handler \in {"add_rating_comment", "skip_comment"}
                       /\ conv[<<last'.chat, last'.user, "rate_item">>] = ADD_COMMENT
                       /\ conv'[<<last'.chat, last'.user, "rate_item">>] = END
              /\ (conv'[k] # conv[k] /\ conv'[k] # END)
                    => /\ conv[k] = Before(conv'[k])[1]
                       /\ last'.handler = Before(conv'[k])[2]
                       /\ last'.chat = c /\ last'.user = u
              /\ last'.handler = "apply_rating" => data' = data]_vars

\* a rate-item flow has stored its rating and ended
C34_Witness ==
    /\ last.handler \in {"add_rating_comment", "skip_comment"}
    /\ last.msg = "rated"
    /\ conv[<<last.chat, last.user, "rate_item">>] = END
    /\ \E l \in DOMAIN data[last.user] : \E i \in DOMAIN data[last.user][l] :
          Len(data[last.user][l][i]) = 2

(***************************************************************************)
(* Ratings and users (section 2 of the specification).                     *)
(***************************************************************************)
\* rating sequence a follows b by an append at the end, the removal of one
\* element, the removal of all, or no change
RatingStep(b, a) ==
    \/ a = b
    \/ Len(a) = Len(b) + 1 /\ SubSeq(a, 1, Len(b)) = b
    \/ \E k \in 0..(Len(b) - 1) : a = RemoveAt(b, k)
    \/ a = << >>

\* C35: no operation edits a rating in place: the ratings of an item that
\* is there before and after a step differ by an append at the end, the
\* removal of one element or the removal of all, so every rating that
\* remains has its score and comment and keeps its place among the others;
\* an item that comes to exist has no ratings.
C35_NeverEdited ==
    [][\A u \in DOMAIN data' : \A l \in DOMAIN data'[u] : \A i \in DOMAIN data'[u][l] :
          IF item_exists(data, u, l, i)
          THEN RatingStep(data[u][l][i], data'[u][l][i])
          ELSE data'[u][l][i] = << >>]_vars

\* a rating was appended behind the two that an earlier removal of the
\* first of three had left
C35_Witness ==
    /\ call.op = "add_rating"
    /\ call.n = 2
    /\ LET rs == get_item_ratings(data, call.user, call.list, call.item)
       IN  /\ Len(rs) = 3
           /\ rs[1] = <<0, <<"c">> >> /\ rs[2] = <<10, <<"c">> >>
           /\ rs[3] = <<call.arg, call.comment>>

\* the store with the data of every user but u removed
Solo(d, u) == [w \in DOMAIN d |-> IF w = u THEN d[w] ELSE EmptyDict]

\* C36: a store operation keyed by user u, and an update that u sends in
\* any chat, leave every other user's lists, items, ratings, flow context
\* and conversations as they were; and what the bot does for u (reply,
\* keyboard, next state, u's own data) is the same as with the other users'
\* data removed from the store.
C36_UserIsolation ==
    [][LET u == IF call' # call THEN call'.user ELSE last'.user
       IN  /\ DOMAIN data' = DOMAIN data
           /\ \A v \in DOMAIN data \ {u} : data'[v] = data[v]
           /\ \A v \in DOMAIN user_data \ {u} :
                 /\ user_data'[v] = user_data[v]
                 /\ \A c \in Chats, f \in Flows : conv'[<<c, v, f>>] = conv[<<c, v, f>>]
           /\ call' = call
                 => LET r == Callback(last'.handler, data, user_data[u], u, last'.upd)
                        q == Callback(last'.handler, Solo(data, u), user_data[u], u, last'.upd)
                    IN  /\ last'.msg = r.msg /\ data' = r.d
                        /\ q.msg = r.msg /\ q.st = r.st /\ q.k = r.k /\ q.ud = r.ud
                        /\ q.d[u] = r.d[u]]_vars

\* u2 has deleted the own list "A" in the group chat while u1, who has a
\* list "A" too, has the delete-list keyboard open there
C36_Witness ==
    /\ last.handler = "execute_delete_list"
    /\ last.user = "u2" /\ last.msg = "deleted"
    /\ <<"A">> \notin get_all_lists(data, "u2")
    /\ <<"A">> \in get_all_lists(data, "u1")
    /\ conv[<<"grp", "u1", "delete_list">>] = DELETE_LIST

(***************************************************************************)
(* Flow context (section 3 of the specification).                          *)
(***************************************************************************)
\* the user_data keys that the handlers of a flow kind write
ContextKeys(f) ==
    CASE f = "add_item" -> {"selected_list"}
      [] f = "rate_item" -> {"rating_list", "rating_item", "temp_rating"}
      [] f = "delete_list" -> {"delete_list_name"}
      [] f = "delete_item" -> {"delete_item_list", "delete_item_name"}
      [] f = "delete_rating" -> {"delete_rating_list", "delete_rating_item",
                                 "delete_rating_index", "delete_all_ratings"}
      [] f = "clear_ratings" -> {"clear_ratings_list", "clear_ratings_item"}
      [] OTHER -> {}

\* C37: a step of one flow kind writes only that kind's keys of the user's
\* flow context: every key of another flow kind, and with it the choices
\* that flow has accumulated, is as before, and no key is removed.
C37_ContextKeysDisjoint ==
    [][\A u \in Users :
          /\ DOMAIN user_data[u] \subseteq DOMAIN user_data'[u]
          /\ \A k \in DOMAIN user_data'[u] :
                (k \notin DOMAIN user_data[u] \/ user_data'[u][k] # user_data[u][k])
                    => k \in ContextKeys(last'.flow) /\ last'.user = u]_vars

\* the delete-item flow has recorded its list while the add-item flow, which
\* has recorded its own, awaits the item name
C37_Witness ==
    /\ last.flow = "delete_item"
    /\ last.handler = "select_list_for_delete_item"
    /\ conv[<<"priv", last.user, "add_item">>] = ADD_ITEM
    /\ conv[<<"priv", last.user, "delete_item">>] # END
    /\ {"selected_list", "delete_item_list"} \subseteq DOMAIN user_data[last.user]

(***************************************************************************)
(* The delete-list and rate-item conversations of one user in the private  *)
(* chat, each update handled in one step by the conversation that accepts  *)
(* it; the user presses only buttons of the keyboard shown and begins a    *)
(* conversation only when none is under way.                               *)
(***************************************************************************)
A_dispatch(c, u, upd) ==
    LET r == Route(hs, conv, c, u, upd)
    IN  /\ r[1] # ""
        /\ r[2] \in EntryCallbacks => Idle(c, u)
        /\ Step(c, u, upd, r[1], r[2], "n/a", Callback(r[2], data, user_data[u], u, upd))

NextBoth ==
    \/ \E u \in Users, upd \in Cmds("deletelist", {"bare"}) \cup Cmds("rate", {"bare"}) :
          A_dispatch("priv", u, upd)
    \/ \E u \in Users : \E upd \in Offered("priv", u, "delete_list") : A_dispatch("priv", u, upd)
    \/ \E u \in Users : \E upd \in Offered("priv", u, "rate_item") : A_dispatch("priv", u, upd)
    \/ \E u \in Users, upd \in TextUpdates \cup Cmds("skip", {"bare"}) : A_dispatch("priv", u, upd)

SpecBoth == InitLive /\ [][NextBoth]_vars

(***************************************************************************)
(* The ratings listing of view_list_ratings, by its length in characters.  *)
(* A list is given by the length of its name and its items, each item by   *)
(* the length of its name and its ratings <<score, length of comment>>.    *)
(* The text sent is the first `head' characters of the rendered message,   *)
(* followed by the truncation notice or not.                               *)
(***************************************************************************)
\* the message is cut when longer than this, and then to this many characters
LengthLimit == 4000
KeptLength == 3950

\* the notice appended to a cut message
truncation_notice(h) ==
    IF h = "new" THEN "\n\n... (message truncated due to length)"
    ELSE "\n\n... (mensaje truncado debido a su longitud)"

\* len(str(n)) of a natural number below 100
digits(n) == IF n < 10 THEN 1 ELSE 2

RECURSIVE score_sum(_)
score_sum(ratings) ==
    IF ratings = << >> THEN 0 ELSE ratings[1][1] + score_sum(Tail(ratings))

\* len(f"{avg_rating:.1f}"): the average of scores 0..10, one decimal place
average_chars(ratings) ==
    IF 100 * score_sum(ratings) >= 995 * Len(ratings) THEN 4 ELSE 3

\* the lines "    {i}. {rating}/10" with " - \"{comment}\"" when there is a comment
RECURSIVE rating_lines(_, _)
rating_lines(ratings, i) ==
    IF i > Len(ratings) THEN 0
    ELSE 4 + digits(i) + 2 + digits(ratings[i][1]) + 3
         + (IF ratings[i][2] > 0 THEN 5 + ratings[i][2] ELSE 0) + 1
         + rating_lines(ratings, i + 1)

\* one item of the listing: rated (name, average, heading, ratings, blank line)
\* or "{item_name}: Not yet rated"
item_block(h, item) ==
    IF item.ratings # << >>
    THEN (2 + item.name + 1)
         + ((IF h = "new" THEN 15 ELSE 16) + average_chars(item.ratings))
         + (IF h = "new" THEN 15 ELSE 26)
         + rating_lines(item.ratings, 1) + 1
    ELSE (IF h = "new" THEN 19 ELSE 21) + item.name

RECURSIVE item_blocks(_, _)
item_blocks(h, items) ==
    IF items = << >> THEN 0 ELSE item_block(h, Head(items)) + item_blocks(h, Tail(items))

\* len(message) before the length test
message_length(h, list_len, items) ==
    (IF h = "new" THEN 26 ELSE 36) + list_len + item_blocks(h, items)

\* the length test and the cut
truncate_late(h, n) ==
    IF n > LengthLimit THEN [head |-> LengthLimit, notice |-> TRUE]
    ELSE [head |-> n, notice |-> FALSE]

truncate(h, n) ==
    IF n > LengthLimit THEN [head |-> KeptLength, notice |-> TRUE]
    ELSE [head |-> n, notice |-> FALSE]

\* len of the text handed to edit_message_text
sent_length(h, t) == t.head + (IF t.notice THEN Len(truncation_notice(h)) ELSE 0)

\* the lists listed: one rated item with a comment that is absent or long,
\* alone or followed by an unrated item
CommentLengths == {0} \cup 3840..3960
ListedItems ==
    {<< [name |-> 1, ratings |-> << <<r, c>> >>] >> : r \in {9, 10}, c \in CommentLengths}
    \cup {<< [name |-> 1, ratings |-> << <<10, c>> >>], [name |-> 2, ratings |-> << >>] >> :
              c \in CommentLengths}

\* a list to show: n is the length of its name, item its items
InitListing ==
    /\ hs \in {"new", "es"}
    /\ data = StoreOf(<< >>)
    /\ user_data = [u \in Users |-> << >>]
    /\ script = NoScript
    /\ conv = [k \in Chats \X Users \X Flows |-> END]
    /\ kb = [k \in Chats \X Users \X Flows |-> NoKb]
    /\ last = [chat |-> "", user |-> "", upd |-> NoUpdate, flow |-> "", handler |-> "",
               member |-> "n/a", admin |-> "n/a", st |-> END, msg |-> ""]
    /\ starts = 0
    /\ running = {}
    /\ \E n \in {1, 2}, items \in ListedItems : call = [NoCall EXCEPT !.n = n, !.item = items]

\* view_list_ratings on a list with items: arg is len(message) as rendered,
\* ret the text sent
A_view_listing ==
    /\ call.op = ""
    /\ call' = [call EXCEPT !.op = "view_list_ratings",
                            !.arg = message_length(hs, call.n, call.item),
                            !.ret = truncate(hs, message_length(hs, call.n, call.item))]
    /\ UNCHANGED <<hs, data, conv, user_data, kb, last, starts, script, running>>

NextListing == A_view_listing

SpecListing == InitListing /\ [][NextListing]_vars

(***************************************************************************)
(* Termination (section 4 of the specification).                           *)
(***************************************************************************)
\* C38: every started flow ends: while the user keeps sending updates that
\* the current state accepts, pressing only buttons that are shown, a
\* conversation that is not in its terminal state eventually is.
C38_FlowsEnd ==
    \A u \in Users : \A f \in {"delete_list", "rate_item"} :
        [](conv[<<"priv", u, f>>] # END => <>(conv[<<"priv", u, f>>] = END))

(***************************************************************************)
(* The long-reply policy of the ratings listing.                           *)
(***************************************************************************)
\* C39: the ratings listing sent by view_list_ratings never exceeds 4000
\* characters: a rendered text longer than 4000 is replaced by its first 3950
\* characters followed by the truncation notice, and a text of at most 4000
\* characters is sent unchanged.
C39_ListingWithinLimit ==
    call.op = "view_list_ratings" =>
        /\ sent_length(hs, call.ret) <= 4000
        /\ call.arg > 4000 => call.ret = [head |-> 3950, notice |-> TRUE]
        /\ call.arg <= 4000 => call.ret = [head |-> call.arg, notice |-> FALSE]

\* a listing one character over the limit was cut and sent with the notice
C39_Witness ==
    /\ call.op = "view_list_ratings"
    /\ call.arg = 4001
    /\ call.ret.notice
    /\ sent_length(hs, call.ret) > 3950

(***************************************************************************)
(* The two handler sets compared.                                          *)
(***************************************************************************)
\* what the other handler set does with the update, from the same store,
\* user_data and conversation states
OtherSet == IF hs = "new" THEN "es" ELSE "new"

OtherResult(c, u, upd) ==
    LET r == Route(OtherSet, conv, c, u, upd)
        res == CallbackIn(OtherSet, r[2], data, user_data[u], u, upd)
    IN  [d |-> IF r[2] = "" THEN data ELSE res.d,
         ud |-> IF r[2] = "" THEN user_data[u] ELSE res.ud,
         conv |-> IF r[1] = "" \/ res.st = RAISE THEN conv
                  ELSE [conv EXCEPT ![<<c, u, r[1]>>] = res.st]]

\* C40: the two handler sets implement the same engine: after every intent
\* built from the commands and choice tokens both sets offer, handled from
\* the same state, the two sets have the same Store contents and every flow
\* is active in both or terminal in both.
C40_SameEngine ==
    [][LET o == OtherResult(last'.chat, last'.user, last'.upd)
       IN  /\ data' = o.d
           /\ \A f \in Flows :
                 (conv'[<<last'.chat, last'.user, f>>] = END)
                     <=> (o.conv[<<last'.chat, last'.user, f>>] = END)]_vars

====
